---- MODULE Spec2Model ----
(***************************************************************************)
(* A model of antidox.doxy: the DoxyDB index (an in-memory SQLite          *)
(* database with the tables elements, hierarchy, compound_kinds and        *)
(* syn_compound_kinds), its construction from Doxygen's index.xml and the  *)
(* per-compound detail files, its pickling, and its read-only queries.     *)
(*                                                                         *)
(* Conventions.                                                            *)
(*  - A SQL table is a bag (multiset) of rows: SQL gives a table no order  *)
(*    and, without a constraint, allows equal rows.                        *)
(*  - A Python str is a sequence of tokens; "/" and "::" are tokens of     *)
(*    their own, so that split("::"), "::".join, pathlib's parts and       *)
(*    str.startswith(".") are computed, not assumed.                       *)
(*  - A RefId is an opaque value here (a model string).                    *)
(*  - The XML input is read as a stream: each build step consumes one      *)
(*    parser event, chosen from a catalogue of elements.                   *)
(***************************************************************************)
EXTENDS Integers, Sequences, FiniteSets, Bags, TLC

VARIABLES
    pc,        \* position of DoxyDB.__init__: "new", "index", "inner", "vacuum", "built", "failed"
    err,       \* the exception __init__ raised, "none" while none
    db,        \* self._db_conn of the store under construction / the built store
    open,      \* index.xml: the <compound> element whose children are being parsed
    todo,      \* _load_all_inner: compound refids left in the cursor
    cur,       \* _read_inner: the compound whose detail file is being parsed
    manifest,  \* history: the index.xml elements consumed so far
    details,   \* history: the detail-file nodes consumed so far
    dump,      \* the pickled state (__getstate__), NoDump while none
    restored,  \* the database of the handle unpickled from dump (__setstate__)
    last,      \* the outcome of the call in progress, NoCall between calls
    running,   \* readers in parallel: for each handle, the call of its reader
    env        \* the Sphinx environment: the scope stack and the runs of DoxyExtractor

vars == <<pc, err, db, open, todo, cur, manifest, details, dump, restored, last,
          running, env>>

(***************************************************************************)
(* Strings                                                                 *)
(***************************************************************************)
SEP == "/"
NS == "::"
DOT == "."
STAR == "*"

\* Tokens s.startswith(".") is true of.
DotTokens == {".", "..", ".hid"}

Last(s) == s[Len(s)]

RECURSIVE SplitFrom(_, _, _, _)
SplitFrom(s, sep, i, acc) ==
    IF i > Len(s) THEN <<acc>>
    ELSE IF s[i] = sep THEN <<acc>> \o SplitFrom(s, sep, i + 1, <<>>)
    ELSE SplitFrom(s, sep, i + 1, Append(acc, s[i]))

\* str.split(sep): always at least one component, possibly empty.
Split(s, sep) == SplitFrom(s, sep, 1, <<>>)

RECURSIVE Join(_, _)
\* sep.join(parts)
Join(parts, sep) ==
    IF Len(parts) = 0 THEN <<>>
    ELSE IF Len(parts) = 1 THEN parts[1]
    ELSE parts[1] \o <<sep>> \o Join(Tail(parts), sep)

\* The root pathlib finds at the head of a POSIX path: "/" for a leading
\* "/", but "//" for exactly two of them.
PathRoot(p) ==
    IF Len(p) = 0 \/ p[1] /= SEP THEN <<>>
    ELSE IF Len(p) >= 2 /\ p[2] = SEP /\ (Len(p) = 2 \/ p[3] /= SEP)
    THEN << <<SEP, SEP>> >>
    ELSE << <<SEP>> >>

\* pathlib.Path(p).parts for a POSIX path: the root if there is one, then
\* the components between "/", without the empty ones and the "." ones.
PathParts(p) ==
    LET IsPart(c) == c /= <<>> /\ c /= <<DOT>>
    IN PathRoot(p) \o SelectSeq(Split(p, SEP), IsPart)

StartsWithDot(s) == Len(s) > 0 /\ s[1] \in DotTokens

\* seq[-n:] of Python: the whole sequence when n = 0.
PySuffix(seq, n) ==
    IF n = 0 THEN seq ELSE SubSeq(seq, Len(seq) - n + 1, Len(seq))

Min(a, b) == IF a <= b THEN a ELSE b

NoPath == <<>>

\* _match_path(p1, p2); a None or empty p2 is NoPath.
MatchPath(p1, p2) ==
    IF p2 = NoPath THEN TRUE
    ELSE LET part1 == PathParts(p1)
             part2 == PathParts(p2)
             minlen == IF StartsWithDot(p2) /\ Len(part2) > 0
                          /\ ~StartsWithDot(part2[1])
                       THEN 0
                       ELSE Min(Len(part1), Len(part2))
         IN PySuffix(part1, minlen) = PySuffix(part2, minlen)

\* A _barename that strips nothing.
BarenameWhole(n) == n

\* _barename(n)
Barename(n) == Last(Split(n, NS))

(***************************************************************************)
(* Kinds                                                                   *)
(***************************************************************************)
Kinds == {"CLASS", "STRUCT", "UNION", "EXCEPTION", "FILE", "NAMESPACE",
          "GROUP", "PAGE", "EXAMPLE", "DIR", "DEFINE", "PROPERTY",
          "VARIABLE", "TYPEDEF", "ENUM", "ENUMVALUE", "FUNCTION", "FRIEND"}

\* Kind.compounds()
Compounds == {"CLASS", "STRUCT", "UNION", "EXCEPTION", "FILE", "NAMESPACE",
              "GROUP", "PAGE", "DIR"}

\* Kind.synthetic_compounds()
SyntheticCompounds == {"GROUP", "PAGE", "DIR"}

\* Kind.subordinate()
Subordinate == {"ENUMVALUE"}

\* str.upper() on the xml "kind" attributes of the catalogue.
Upper(attr) ==
    CASE attr = "file" -> "FILE"
      [] attr = "struct" -> "STRUCT"
      [] attr = "union" -> "UNION"
      [] attr = "class" -> "CLASS"
      [] attr = "namespace" -> "NAMESPACE"
      [] attr = "group" -> "GROUP"
      [] attr = "page" -> "PAGE"
      [] attr = "dir" -> "DIR"
      [] attr = "define" -> "DEFINE"
      [] attr = "variable" -> "VARIABLE"
      [] attr = "typedef" -> "TYPEDEF"
      [] attr = "enum" -> "ENUM"
      [] attr = "enumvalue" -> "ENUMVALUE"
      [] attr = "function" -> "FUNCTION"
      [] attr = "friend" -> "FRIEND"
      [] attr = "interface" -> "INTERFACE"
      [] attr = "concept" -> "CONCEPT"
      [] OTHER -> "OTHER"

\* Kind.tag_supported(attr)
TagSupported(attr) == Upper(attr) \in Kinds

(***************************************************************************)
(* Tables                                                                  *)
(***************************************************************************)
NoDb == [closed |-> TRUE]
NoRef == "none"
NoDump == [script |-> "none"]
\* The handles: the store __init__ built and its unpickled copy.
Handles == {"db", "restored"}

\* A reader between two calls, and every reader so.
Idle == [phase |-> "idle"]
NoneRunning == [h \in Handles |-> Idle]

NoCall == [op |-> "none"]

\* env.ref_context without the key 'doxy:refid'.
NoStack == [has |-> FALSE, stack |-> <<>>]
\* The environment of a document before any directive has run.
NoEnv == [ref_context |-> NoStack, runs |-> <<>>, scope |-> "none", exc |-> "none"]

EmptyTable == [x \in {} |-> 0]

Rows(table) == DOMAIN table

Count(table, row) == IF row \in DOMAIN table THEN table[row] ELSE 0

TableOf(S) == [x \in S |-> 1]

\* A plain INSERT: one more copy of the row.
AddRow(table, row) ==
    [x \in DOMAIN table \cup {row} |->
        IF x = row THEN Count(table, row) + 1 ELSE table[x]]

DropRow(table, row) == [x \in DOMAIN table \ {row} |-> table[x]]

RECURSIVE SumOver(_, _)
SumOver(table, S) ==
    IF S = {} THEN 0
    ELSE LET x == CHOOSE y \in S : TRUE
         IN table[x] + SumOver(table, S \ {x})

\* SELECT COUNT(*)
NRows(table) == SumOver(table, DOMAIN table)

ElemRow(refid, name, kind) == [refid |-> refid, name |-> name, kind |-> kind]
EdgeRow(child, parent) == [child |-> child, parent |-> parent]

\* The identifiers with a row in elements.
Ids(d) == {e.refid : e \in Rows(d.elements)}

\* The DB after _init_db: the schema and the two lookup tables.
NewDb ==
    [elements |-> EmptyTable,
     hierarchy |-> EmptyTable,
     compound_kinds |-> TableOf(Compounds),
     syn_compound_kinds |-> TableOf(SyntheticCompounds)]

\* An INSERT INTO elements without the PRIMARY KEY and its conflict clause.
InsertElementRowPlain(d, row) == [d EXCEPT !.elements = AddRow(@, row)]

\* INSERT INTO elements: PRIMARY KEY (prefix, id) ON CONFLICT IGNORE.
InsertElementRow(d, row) ==
    IF \E e \in Rows(d.elements) : e.refid = row.refid
    THEN d
    ELSE [d EXCEPT !.elements = AddRow(@, row)]

\* A hierarchy without its FOREIGN KEY.
ForeignKeyOff(d, row) == TRUE

\* FOREIGN KEY(prefix, id) REFERENCES elements(prefix, id), with
\* PRAGMA foreign_keys = 1.
ForeignKeyOk(d, row) == row.child \in Ids(d)

\* INSERT INTO hierarchy: UNIQUE (prefix, id, p_prefix, p_id) ON CONFLICT
\* REPLACE deletes the row in conflict and inserts the new one.
InsertEdgeRow(d, row) ==
    [d EXCEPT !.hierarchy = AddRow(DropRow(@, row), row)]

\* An operation's outcome on the database: the exception raised ("none" when
\* it returned) and the database it leaves.
Outcome(e, d) == [err |-> e, db |-> d]

\* An _insert_element that records no edge.
InsertElementWithoutEdge(d, refid, name, kind, parent_refid) ==
    Outcome("none", InsertElementRow(d, ElemRow(refid, name, kind)))

\* DoxyDB._insert_element
InsertElement(d, refid, name, kind, parent_refid) ==
    LET d1 == InsertElementRow(d, ElemRow(refid, name, kind))
    IN IF parent_refid = NoRef THEN Outcome("none", d1)
       ELSE IF ~ForeignKeyOk(d1, EdgeRow(refid, parent_refid))
            THEN Outcome("IntegrityError", d1)
            ELSE Outcome("none", InsertEdgeRow(d1, EdgeRow(refid, parent_refid)))

(***************************************************************************)
(* The input: index.xml and the detail files                               *)
(***************************************************************************)
\* The number of elements of index.xml and of nodes of the detail files one
\* build reads.
MaxInput == 4

NoName == <<"(no name)">>
NoElem == [tag |-> "none"]

Elem(tag, refid, kind, name) ==
    [tag |-> tag, refid |-> refid, kind |-> kind, name |-> name]

\* The <compound> elements an index.xml is made of: two files (the second
\* with the name of the first, or with a path the first is a suffix of), a
\* struct (with or without a namespace in its name), a group, a compound of
\* a kind outside the taxonomy and a compound without <name>.
CompoundCatalogue ==
    { Elem("compound", "f1", "file", <<"a.h">>),
      Elem("compound", "f2", "file", <<"a.h">>),
      Elem("compound", "f2", "file", <<"d", SEP, "a.h">>),
      Elem("compound", "s", "struct", <<"S">>),
      Elem("compound", "s", "struct", <<"N", NS, "S">>),
      Elem("compound", "g", "group", <<"G">>),
      Elem("compound", "i", "interface", <<"I">>),
      Elem("compound", "i", "struct", NoName) }

VarV == Elem("member", "v", "variable", <<"x">>)
VarVRenamed == Elem("member", "v", "variable", <<"y">>)
VarW == Elem("member", "w", "variable", <<"x">>)
EnumE == Elem("member", "e", "enum", <<"E">>)
ValueR == Elem("member", "r", "enumvalue", <<"R">>)
SignalU == Elem("member", "u", "signal", <<"x">>)
NamelessU == Elem("member", "u", "variable", NoName)
BogusU == Elem("bogus", "u", "variable", <<"x">>)

\* The elements nested in a <compound>: two variables of the same name (the
\* first restated in the group, there also under another name), an enum and
\* its value, a member of a kind outside the taxonomy, a member without
\* <name> and an element that is no <member>.
MemberCatalogue ==
    { VarV, VarVRenamed, VarW, EnumE, ValueR, SignalU, NamelessU, BogusU }

\* Where index.xml nests which member: <<member, compound>>.
Nesting ==
    { <<VarV, "f1">>, <<VarV, "g">>, <<VarVRenamed, "g">>,
      <<VarW, "f1">>, <<VarW, "f2">>, <<VarW, "s">>,
      <<EnumE, "f1">>, <<ValueR, "f1">>,
      <<SignalU, "f1">>, <<NamelessU, "f1">>, <<BogusU, "f1">> }

\* The order index.xml lists its compounds in; each is listed once.
Rank(refid) ==
    CASE refid = "f1" -> 1
      [] refid = "f2" -> 2
      [] refid = "s" -> 3
      [] refid = "g" -> 4
      [] OTHER -> 5

Node(tag, id, parentTag, parentId) ==
    [tag |-> tag, id |-> id, parentTag |-> parentTag, parentId |-> parentId]

InnerClassS == Node(<<"inner", "class">>, "s", "compounddef", NoRef)
InnerFileF1 == Node(<<"inner", "file">>, "f1", "compounddef", NoRef)
InnerClassZ == Node(<<"inner", "class">>, "zz", "compounddef", NoRef)
InnerConcept == Node(<<"inner", "concept">>, "s", "compounddef", NoRef)
SectionDef == Node(<<"sectiondef">>, NoRef, "compounddef", NoRef)
EnumValueR == Node(<<"enumvalue">>, "r", "memberdef", "e")
StrayEnumValue == Node(<<"enumvalue">>, "r", "sectiondef", NoRef)

\* The elements of a detail file below its <compounddef>.
NodeCatalogue ==
    { InnerClassS, InnerFileF1, InnerClassZ, InnerConcept, SectionDef,
      EnumValueR, StrayEnumValue }

\* Which detail file holds which node: <<node, compound>>.
Holding ==
    { <<InnerClassS, "f1">>, <<InnerClassS, "s">>, <<InnerFileF1, "g">>,
      <<InnerClassZ, "f1">>, <<InnerConcept, "f1">>, <<SectionDef, "f1">>,
      <<EnumValueR, "f1">>, <<StrayEnumValue, "f1">> }

RefIds == {"f1", "f2", "s", "g", "i", "v", "w", "e", "r", "u", "zz"}

ManifestEntry(elem, parent) == [elem |-> elem, parent |-> parent]
DetailEntry(compound, node) == [compound |-> compound, node |-> node]

(***************************************************************************)
(* The build: DoxyDB.__init__                                              *)
(***************************************************************************)

\* A _read_index that keeps the <compound> as the parent of an enum value.
ReadIndexElemKeepingParent(d, elem, parent) ==
    IF elem.tag \notin {"compound", "member"}
    THEN Outcome("DoxyFormatError", d)
    ELSE IF ~TagSupported(elem.kind)
    THEN Outcome("NotImplementedError", d)
    ELSE IF elem.name = NoName
    THEN Outcome("DoxyFormatError", d)
    ELSE InsertElement(d, elem.refid, elem.name, Upper(elem.kind),
                       IF elem.tag = "compound" THEN NoRef ELSE parent)

\* A _read_index that does not ask for the name of the element.
ReadIndexElemUnnamed(d, elem, parent) ==
    IF elem.tag \notin {"compound", "member"}
    THEN Outcome("DoxyFormatError", d)
    ELSE IF ~TagSupported(elem.kind)
    THEN Outcome("NotImplementedError", d)
    ELSE InsertElement(d, elem.refid, elem.name, Upper(elem.kind),
                       IF elem.tag = "compound" \/ Upper(elem.kind) = "ENUMVALUE"
                       THEN NoRef ELSE parent)

\* One "end" event of _read_index, for a <compound> (parent = NoRef) or for
\* an element nested in the <compound> with refid parent.
ReadIndexElem(d, elem, parent) ==
    IF elem.tag \notin {"compound", "member"}
    THEN Outcome("DoxyFormatError", d)
    ELSE IF ~TagSupported(elem.kind)
    THEN Outcome("NotImplementedError", d)
    ELSE LET kind == Upper(elem.kind)
             p_refid == IF elem.tag = "compound" \/ kind = "ENUMVALUE"
                        THEN NoRef ELSE parent
         IN IF elem.name = NoName
            THEN Outcome("DoxyFormatError", d)
            ELSE InsertElement(d, elem.refid, elem.name, kind, p_refid)

\* str.partition("inner") on a tag: the part before "inner" and the part
\* after it.
TagBeforeInner(tag) == IF tag[1] = "inner" THEN "" ELSE tag[1]
TagAfterInner(tag) == IF Len(tag) >= 2 THEN tag[2] ELSE ""

\* A _read_inner that takes the kind of an inner element with
\* Kind.from_attr, as _read_index does.
ReadInnerNodeStrict(d, node, p_refid) ==
    IF node.tag = <<"enumvalue">>
    THEN IF node.parentTag /= "memberdef"
         THEN Outcome("ConsistencyError", d)
         ELSE IF ~ForeignKeyOk(d, EdgeRow(node.id, node.parentId))
              THEN Outcome("IntegrityError", d)
              ELSE Outcome("none", InsertEdgeRow(d, EdgeRow(node.id, node.parentId)))
    ELSE IF TagBeforeInner(node.tag) /= ""
    THEN Outcome("none", d)
    ELSE IF ~TagSupported(TagAfterInner(node.tag))
    THEN Outcome("NotImplementedError", d)
    ELSE IF ~ForeignKeyOk(d, EdgeRow(node.id, p_refid))
         THEN Outcome("IntegrityError", d)
         ELSE Outcome("none", InsertEdgeRow(d, EdgeRow(node.id, p_refid)))

\* One "start" event of _read_inner below <compounddef id=p_refid>.
ReadInnerNode(d, node, p_refid) ==
    IF node.tag = <<"enumvalue">>
    THEN IF node.parentTag /= "memberdef"
         THEN Outcome("ConsistencyError", d)
         ELSE IF ~ForeignKeyOk(d, EdgeRow(node.id, node.parentId))
              THEN Outcome("IntegrityError", d)
              ELSE Outcome("none", InsertEdgeRow(d, EdgeRow(node.id, node.parentId)))
    ELSE IF TagBeforeInner(node.tag) /= ""
    THEN Outcome("none", d)
    ELSE IF ~TagSupported(TagAfterInner(node.tag))
    THEN Outcome("none", d)
    ELSE IF ~ForeignKeyOk(d, EdgeRow(node.id, p_refid))
         THEN Outcome("IntegrityError", d)
         ELSE Outcome("none", InsertEdgeRow(d, EdgeRow(node.id, p_refid)))

\* The cursor of _load_all_inner:
\* SELECT prefix, id FROM elements WHERE kind in compound_kinds
CompoundIds(d) ==
    {e.refid : e \in {x \in Rows(d.elements) : x.kind \in Rows(d.compound_kinds)}}

\* The elements and nodes read so far, the open <compound> included.
InputRead(seen, opened, nodes) ==
    Cardinality(seen \cup (IF opened = NoElem THEN {}
                           ELSE {ManifestEntry(opened, NoRef)}))
    + Cardinality(nodes)

\* The <compound> elements index.xml may go on with.
MayOpen(seen) ==
    {c \in CompoundCatalogue :
        /\ \A m \in seen : m.parent = NoRef => Rank(m.elem.refid) < Rank(c.refid)
        /\ InputRead(seen, NoElem, {}) < MaxInput}

Init ==
    /\ pc = "new"
    /\ err = "none"
    /\ db = NoDb
    /\ open = NoElem
    /\ todo = {}
    /\ cur = NoRef
    /\ manifest = {}
    /\ details = {}
    /\ dump = NoDump
    /\ restored = NoDb
    /\ last = NoCall
    /\ running = NoneRunning
    /\ env = NoEnv

Raise(e) ==
    /\ pc' = "failed"
    /\ err' = e
    /\ db' = NoDb
    /\ open' = NoElem
    /\ todo' = {}
    /\ cur' = NoRef

\* __init__ up to the first element of index.xml.
InitDbStep ==
    /\ pc = "new"
    /\ db' = NewDb
    /\ \/ /\ \E c \in MayOpen(manifest) : open' = c
          /\ pc' = "index"
          /\ todo' = {}
       \/ /\ open' = NoElem
          /\ pc' = "inner"
          /\ todo' = CompoundIds(NewDb)
    /\ UNCHANGED <<err, cur, manifest, details, dump, restored, last, running, env>>

\* _read_index: the end of an element nested in the open <compound>.
ReadIndexMember ==
    /\ pc = "index"
    /\ \E m \in MemberCatalogue :
        LET entry == ManifestEntry(m, open.refid)
            out == ReadIndexElem(db, m, open.refid)
        IN /\ <<m, open.refid>> \in Nesting
           /\ entry \in manifest \/ InputRead(manifest, open, details) < MaxInput
           /\ manifest' = manifest \cup {entry}
           /\ IF out.err = "none"
              THEN /\ db' = out.db
                   /\ UNCHANGED <<pc, err, open, todo, cur>>
              ELSE Raise(out.err)
    /\ UNCHANGED <<details, dump, restored, last, running, env>>

\* _read_index: the end of the open <compound>; index.xml then goes on with
\* another <compound> or ends, and _load_all_inner opens its cursor.
ReadIndexCompound ==
    /\ pc = "index"
    /\ LET entry == ManifestEntry(open, NoRef)
           out == ReadIndexElem(db, open, NoRef)
       IN /\ manifest' = manifest \cup {entry}
          /\ IF out.err = "none"
             THEN /\ db' = out.db
                  /\ \/ /\ \E c \in MayOpen(manifest') : open' = c
                        /\ UNCHANGED <<pc, todo>>
                     \/ /\ open' = NoElem
                        /\ pc' = "inner"
                        /\ todo' = CompoundIds(out.db)
                  /\ UNCHANGED <<err, cur>>
             ELSE Raise(out.err)
    /\ UNCHANGED <<details, dump, restored, last, running, env>>

\* _load_all_inner: the next row of the cursor, and the <compounddef> of its
\* detail file; after the last row, __init__ goes on to _vacuum.
LoadNextInner ==
    /\ pc = "inner"
    /\ IF todo = {}
       THEN /\ pc' = "vacuum"
            /\ cur' = NoRef
            /\ UNCHANGED todo
       ELSE /\ \E c \in todo : cur' = c /\ todo' = todo \ {c}
            /\ UNCHANGED pc
    /\ UNCHANGED <<err, db, open, manifest, details, dump, restored, last, running, env>>

\* _read_inner: the start of an element below <compounddef>.
ReadInner ==
    /\ pc = "inner"
    /\ cur /= NoRef
    /\ \E n \in NodeCatalogue :
        LET entry == DetailEntry(cur, n)
            out == ReadInnerNode(db, n, cur)
        IN /\ <<n, cur>> \in Holding
           /\ entry \in details \/ InputRead(manifest, open, details) < MaxInput
           /\ details' = details \cup {entry}
           /\ IF out.err = "none"
              THEN /\ db' = out.db
                   /\ UNCHANGED <<pc, err, open, todo, cur>>
              ELSE Raise(out.err)
    /\ UNCHANGED <<manifest, dump, restored, last, running, env>>

\* _vacuum, and the return of __init__.
Vacuum ==
    /\ pc = "vacuum"
    /\ pc' = "built"
    /\ UNCHANGED <<err, db, open, todo, cur, manifest, details, dump, restored, last, running, env>>

(***************************************************************************)
(* Pickling                                                                *)
(***************************************************************************)
Stmt(table, row) == [table |-> table, row |-> row]

\* The INSERT statements sqlite3's iterdump writes for one table: one for
\* each copy of each row.
DumpTable(d, name) ==
    LET t == d[name]
    IN [st \in {Stmt(name, row) : row \in Rows(t)} |-> t[st.row]]

\* DoxyDB.__getstate__: the database as SQL commands. iterdump writes the
\* schema (CREATE TABLE, with its constraints) and the rows of every table.
GetState(d) ==
    [script |-> "sql",
     stmts |-> [tn \in {"compound_kinds", "elements", "hierarchy",
                        "syn_compound_kinds"} |-> DumpTable(d, tn)]]

\* The execution of one INSERT of the script, n times, on the database
\* being restored; the constraints are those of the schema in the script.
RECURSIVE ExecInsert(_, _, _)
ExecInsert(d, st, n) ==
    IF n = 0 THEN d
    ELSE LET d1 == CASE st.table = "elements" -> InsertElementRow(d, st.row)
                     [] st.table = "hierarchy" -> InsertEdgeRow(d, st.row)
                     [] OTHER -> [d EXCEPT ![st.table] = AddRow(@, st.row)]
         IN ExecInsert(d1, st, n - 1)

RECURSIVE ExecAll(_, _, _)
ExecAll(d, stmts, left) ==
    IF left = {} THEN d
    ELSE LET st == CHOOSE x \in left : TRUE
         IN ExecAll(ExecInsert(d, st, stmts[st]), stmts, left \ {st})

EmptyDb ==
    [elements |-> EmptyTable,
     hierarchy |-> EmptyTable,
     compound_kinds |-> EmptyTable,
     syn_compound_kinds |-> EmptyTable]

RECURSIVE ExecScript(_, _, _)
ExecScript(d, state, tables) ==
    IF tables = <<>> THEN d
    ELSE LET stmts == state.stmts[Head(tables)]
         IN ExecScript(ExecAll(d, stmts, DOMAIN stmts), state, Tail(tables))

\* A __setstate__ that restores every table but hierarchy.
SetStateWithoutEdges(state) ==
    ExecScript(EmptyDb, state, <<"compound_kinds", "elements", "syn_compound_kinds">>)

\* DoxyDB.__setstate__: a new connection, the script executed on it (the
\* tables in the order iterdump wrote them), _vacuum.
SetState(state) ==
    ExecScript(EmptyDb, state,
               <<"compound_kinds", "elements", "hierarchy", "syn_compound_kinds">>)

(***************************************************************************)
(* Queries                                                                 *)
(***************************************************************************)
NoKind == "none"
NoKinds == <<"none">>

Ok(v) == [exc |-> "none", val |-> v]
Exc(e) == [exc |-> e, val |-> <<>>]
ExcWith(e, v) == [exc |-> e, val |-> v]

\* RefError and the exceptions derived from it.
RefErrorFamily == {"RefError", "InvalidTarget", "AmbiguousTarget"}

SearchResult(refid, name, kind) == [refid |-> refid, name |-> name, kind |-> kind]
Target(path, name) == [path |-> path, name |-> name]

\* Target.name_components
NameComponents(target) == Split(target.name, NS)

\* The bag of the values f[x], each x counted w[x] times: the rows
\* a SELECT over a join yields.
BagImage(f, w) ==
    [y \in {f[x] : x \in DOMAIN f} |-> SumOver(w, {x \in DOMAIN f : f[x] = y})]

\* hierarchy INNER JOIN elements, on the child or on the parent of the edge.
JoinChild(d) ==
    {<<h, e>> \in Rows(d.hierarchy) \X Rows(d.elements) : h.child = e.refid}
JoinParent(d) ==
    {<<h, e>> \in Rows(d.hierarchy) \X Rows(d.elements) : h.parent = e.refid}

JoinedResults(d, pairs) ==
    BagImage([p \in pairs |-> SearchResult(p[2].refid, p[2].name, p[2].kind)],
             [p \in pairs |-> d.hierarchy[p[1]] * d.elements[p[2]]])

\* DoxyDB.get: the outcomes the call may have (the row list(cur)[0]).
Get(d, refid) ==
    LET rows == {e \in Rows(d.elements) : e.refid = refid}
    IN IF rows = {} THEN {Exc("RefError")}
       ELSE {Ok([name |-> e.name, kind |-> e.kind]) : e \in rows}

\* A find_parents without "kind in compound_kinds".
FindParentsOfAnyKind(d, refid) ==
    JoinedResults(d, {p \in JoinParent(d) : p[1].child = refid})

\* DoxyDB.find_parents
FindParents(d, refid) ==
    JoinedResults(d, {p \in JoinParent(d) :
                         /\ p[1].child = refid
                         /\ p[2].kind \in Rows(d.compound_kinds)})

\* A find_children that takes syn_compound_kinds for compound_kinds.
FindChildrenBySynthetic(d, refid) ==
    LET rows == {p \in JoinChild(d) : p[1].parent = refid}
        IsCompound(p) == p[2].kind \in Rows(d.syn_compound_kinds)
    IN << JoinedResults(d, {p \in rows : ~IsCompound(p)}),
          JoinedResults(d, {p \in rows : IsCompound(p)}) >>

\* DoxyDB.find_children: <<members, compounds>>
FindChildren(d, refid) ==
    LET rows == {p \in JoinChild(d) : p[1].parent = refid}
        IsCompound(p) == p[2].kind \in Rows(d.compound_kinds)
    IN << JoinedResults(d, {p \in rows : ~IsCompound(p)}),
          JoinedResults(d, {p \in rows : IsCompound(p)}) >>

\* The rows (?) of VALUES holding the kind, for the list of kinds given or,
\* without one, the list of the kinds that are not subordinate.
AllowedKinds(kinds, kind) ==
    IF kinds = NoKinds
    THEN IF kind \in Kinds \ Subordinate THEN 1 ELSE 0
    ELSE Cardinality({i \in 1..Len(kinds) : kinds[i] = kind})

\* DoxyDB.find; kinds is a list of kinds, NoKinds when not given. An empty
\* list leaves "VALUES" without a row, which SQLite refuses.
Find(d, kinds, no_parent) ==
    IF kinds = <<>> THEN Exc("OperationalError")
    ELSE LET HasParent(e) == \E h \in Rows(d.hierarchy) : h.child = e.refid
             rows == {e \in Rows(d.elements) :
                         /\ AllowedKinds(kinds, e.kind) > 0
                         /\ no_parent => ~HasParent(e)}
         IN Ok(BagImage([e \in rows |-> SearchResult(e.refid, e.name, e.kind)],
                        [e \in rows |-> d.elements[e] * AllowedKinds(kinds, e.kind)]))

\* An in_scope that is 1 for any parent.
InScopeAnyParent(d, refid, scope) ==
    IF \E h \in Rows(d.hierarchy) : h.child = refid THEN 1 ELSE -1

\* MAX(h.p_prefix = ? AND h.p_id = ?) over the edges of refid as child, in
\* a LEFT JOIN: NULL (here -1) without edge, else 1 if an edge leads to the
\* scope, else 0. Without scope the comparison is with RefId ("", "").
InScope(d, refid, scope) ==
    LET edges == {h \in Rows(d.hierarchy) : h.child = refid}
    IN IF edges = {} THEN -1
       ELSE IF scope /= NoRef /\ \E h \in edges : h.parent = scope THEN 1
       ELSE 0

ScopeRows(d, refids, scope) ==
    {[in_scope |-> InScope(d, f, scope), refid |-> f] : f \in refids}

\* A _cur_to_refid that returns the first row whatever the others are.
CurToRefidFirst(r, scoped) ==
    IF r = {} THEN {Exc("InvalidTarget")}
    ELSE {Ok(x.refid) : x \in {y \in r : \A z \in r : z.in_scope <= y.in_scope}}

\* A _cur_to_refid that, given a scope, raises AmbiguousTarget only when
\* several rows are in the scope.
CurToRefidScopeWins(r, scoped) ==
    LET first == {x \in r : \A y \in r : y.in_scope <= x.in_scope}
        scoped_results == {x \in r : x.in_scope = 1}
    IN IF r = {} THEN {Exc("InvalidTarget")}
       ELSE IF /\ Cardinality(r) > 1
               /\ \/ ~scoped
                  \/ Cardinality(scoped_results) > 1
       THEN {ExcWith("AmbiguousTarget",
                     BagImage([x \in r |-> x.refid], [x \in r |-> 1]))}
       ELSE {Ok(x.refid) : x \in first}

\* DoxyDB._cur_to_refid: the outcomes over the orders ORDER BY in_scope DESC
\* allows (NULL sorts last).
CurToRefid(r, scoped) ==
    LET first == {x \in r : \A y \in r : y.in_scope <= x.in_scope}
        scoped_results == {x \in r : x.in_scope = 1}
    IN IF r = {} THEN {Exc("InvalidTarget")}
       ELSE IF /\ Cardinality(r) > 1
               /\ \/ ~scoped
                  \/ \E x \in first : x.in_scope /= 1
                  \/ Cardinality(scoped_results) > 1
       THEN {ExcWith("AmbiguousTarget",
                     BagImage([x \in r |-> x.refid], [x \in r |-> 1]))}
       ELSE {Ok(x.refid) : x \in first}

\* A "follow" whose level 0 holds the compounds of any kind that match the
\* path.
RECURSIVE FollowFromCompounds(_, _, _, _)
FollowFromCompounds(d, path, components, level) ==
    IF level = 0
    THEN {e.refid : e \in {x \in Rows(d.elements) :
                              /\ x.kind \in Rows(d.compound_kinds)
                              /\ MatchPath(x.name, path)}}
    ELSE LET f == FollowFromCompounds(d, path, components, level - 1)
         IN {p[1].child : p \in {q \in JoinChild(d) :
                                   /\ q[1].parent \in f
                                   /\ Barename(q[2].name) = components[level]}}

\* The rows of the recursive table "follow" at a level: the files matching
\* the path at level 0, then the children whose barename is the component.
RECURSIVE Follow(_, _, _, _)
Follow(d, path, components, level) ==
    IF level = 0
    THEN {e.refid : e \in {x \in Rows(d.elements) :
                              x.kind = "FILE" /\ MatchPath(x.name, path)}}
    ELSE LET f == Follow(d, path, components, level - 1)
         IN {p[1].child : p \in {q \in JoinChild(d) :
                                   /\ q[1].parent \in f
                                   /\ Barename(q[2].name) = components[level]}}

\* DoxyDB.resolve_target
ResolveTarget(d, target, scope) ==
    LET components == NameComponents(target)
        ncompo == Len(components)
        accept_level == IF ncompo = 1 /\ target.name = <<STAR>> THEN 0 ELSE ncompo
    IN CurToRefid(ScopeRows(d, Follow(d, target.path, components, accept_level),
                            scope),
                  scope /= NoRef)

\* DoxyDB.resolve_name
ResolveName(d, kind, name, scope) ==
    LET found == {e \in Rows(d.elements) :
                     (kind = NoKind \/ e.kind = kind) /\ e.name = name}
    IN CurToRefid(ScopeRows(d, {e.refid : e \in found}, scope), scope /= NoRef)

\* LIMIT 20 of the recursive table "parent"
ParentLimit == 20

\* A step of "parent" without "NOT elements.kind IN syn_compound_kinds".
UpAnyKind(d, level) ==
    {p[2].refid : p \in {q \in JoinParent(d) : q[1].child \in level}}

\* One step of "parent": the parents in elements, not of a synthetic kind.
Up(d, level) ==
    {p[2].refid : p \in {q \in JoinParent(d) :
                            /\ q[1].child \in level
                            /\ q[2].kind \notin Rows(d.syn_compound_kinds)}}

\* The levels of "parent" the LIMIT lets through, as the sets of the rows of
\* each level; of the level the LIMIT cuts, any rows may be the ones left.
RECURSIVE ParentLevels(_, _, _)
ParentLevels(d, level, budget) ==
    IF level = {} \/ budget = 0 THEN {<<>>}
    ELSE IF Cardinality(level) <= budget
    THEN {<<level>> \o rest :
             rest \in ParentLevels(d, Up(d, level), budget - Cardinality(level))}
    ELSE {<<cut>> : cut \in {c \in SUBSET level : Cardinality(c) = budget}}

\* SELECT name, kind ... GROUP BY level: one row for each level, of any of
\* the elements of the level.
RECURSIVE GroupByLevel(_, _)
GroupByLevel(d, levels) ==
    IF levels = <<>> THEN {<<>>}
    ELSE {<<[name |-> e.name, kind |-> e.kind]>> \o rest :
             e \in {x \in Rows(d.elements) : x.refid \in Head(levels)},
             rest \in GroupByLevel(d, Tail(levels))}

Reverse(seq) == [i \in 1..Len(seq) |-> seq[Len(seq) + 1 - i]]

NMatchingFiles(d, path) ==
    LET files == {e \in Rows(d.elements) :
                     e.kind = "FILE" /\ MatchPath(e.name, path)}
    IN SumOver(d.elements, files)

\* A refid_to_target that raises InvalidTarget when the last row is no file.
RefidToTargetOfInvalid(d, nodes) ==
    IF Len(nodes) = 0 \/ Last(nodes).kind /= "FILE" THEN Exc("InvalidTarget")
    ELSE IF Len(nodes) = 1
    THEN Ok(Target(nodes[1].name, <<STAR>>))
    ELSE Ok(Target(Last(nodes).name, <<STAR>>))

\* A refid_to_target that does not look at the kind of the last row.
RefidToTargetOfUnchecked(d, nodes) ==
    IF Len(nodes) = 0 THEN Exc("InvalidTarget")
    ELSE Ok(Target(Last(nodes).name, <<STAR>>))

\* DoxyDB.refid_to_target, from the rows of the query on
RefidToTargetOf(d, nodes) ==
    IF Len(nodes) = 0 THEN Exc("InvalidTarget")
    ELSE IF Last(nodes).kind /= "FILE" THEN Exc("ConsistencyError")
    ELSE IF Len(nodes) = 1
    THEN LET path == nodes[1].name
         IN Ok(Target(IF NMatchingFiles(d, path) = 1 THEN path
                      ELSE <<DOT, SEP>> \o path,
                      <<STAR>>))
    ELSE LET inner == SubSeq(nodes, 1, Len(nodes) - 1)
             names == [i \in 1..Len(inner) |-> Reverse(inner)[i].name]
         IN Ok(Target(Last(nodes).name, Join(names, NS)))

\* DoxyDB.refid_to_target: the outcomes the call may have
RefidToTarget(d, refid) ==
    LET start == IF refid \in Ids(d) THEN {refid} ELSE {}
    IN {RefidToTargetOf(d, nodes) :
           nodes \in UNION {GroupByLevel(d, levels) :
                               levels \in ParentLevels(d, start, ParentLimit)}}

\* DoxyDB._easy_kinds
EasyKinds ==
    [k \in {"ENUM", "STRUCT", "UNION", "TYPEDEF", "DEFINE", "FUNCTION"} |->
        CASE k = "DEFINE" -> "macro"
          [] k = "FUNCTION" -> "function"
          [] OTHER -> "type"]

\* A guess_desctype for which any compound parent makes a member.
GuessDesctypeAnyParent(d, refid) ==
    {IF got.exc /= "none" THEN got
     ELSE IF got.val.kind \in DOMAIN EasyKinds THEN Ok(EasyKinds[got.val.kind])
     ELSE IF got.val.kind = "VARIABLE"
     THEN IF Rows(FindParents(d, refid)) /= {} THEN Ok("member") ELSE Ok("var")
     ELSE Exc("ValueError")
     : got \in Get(d, refid)}

\* DoxyDB.guess_desctype
GuessDesctype(d, refid) ==
    {IF got.exc /= "none" THEN got
     ELSE LET kind == got.val.kind
          IN IF kind \in DOMAIN EasyKinds THEN Ok(EasyKinds[kind])
             ELSE IF kind = "VARIABLE"
             THEN IF \E res \in Rows(FindParents(d, refid)) :
                        res.kind \in {"UNION", "STRUCT"}
                  THEN Ok("member") ELSE Ok("var")
             ELSE Exc("ValueError")
     : got \in Get(d, refid)}

\* A _first_parent that treats a subordinate kind as any other.
FirstParentDirect(d, refid, kind) ==
    {res.refid : res \in Rows(FindParents(d, refid))}

\* DoxyDB._first_parent: the refids next(solutions) may be, none when it
\* raises StopIteration
FirstParent(d, refid, kind) ==
    IF kind \in Subordinate
    THEN {p[1].parent : p \in {q \in JoinParent(d) :
                                  /\ \E h2 \in Rows(d.hierarchy) :
                                        /\ h2.child = refid
                                        /\ h2.parent = q[1].child
                                  /\ q[2].kind \in Rows(d.compound_kinds)}}
    ELSE {res.refid : res \in Rows(FindParents(d, refid))}

\* DoxyDB.get_tree, up to the detail file it reads and the element it asks
\* the file for
GetTreeOf(d, refid, got) ==
    IF got.exc /= "none" THEN {got}
    ELSE LET refkind == got.val.kind
         IN IF refkind \in Compounds
            THEN {Ok([file |-> refid, tag |-> "compounddef", id |-> refid])}
            ELSE LET solutions == FirstParent(d, refid, refkind)
                     tag == IF refkind \notin Subordinate THEN "memberdef"
                            ELSE "enumvalue"
                 IN IF solutions = {} THEN {Exc("ConsistencyError")}
                    ELSE {Ok([file |-> f, tag |-> tag, id |-> refid]) :
                             f \in solutions}

\* DoxyDB.get_tree: self.get(refid), then the rest
GetTree(d, refid) == UNION {GetTreeOf(d, refid, got) : got \in Get(d, refid)}

(***************************************************************************)
(* Calls on the built store and on its unpickled copy                      *)
(***************************************************************************)
Store(h) == IF h = "db" THEN db ELSE restored

\* A handle of the store from the moment its tables exist.
AliveDuringBuild(h) == IF h = "db" THEN db /= NoDb ELSE restored /= NoDb

\* A handle a caller may hold: the object __init__ returned, or the object
\* unpickled.
Alive(h) == IF h = "db" THEN pc = "built" ELSE restored /= NoDb

\* The arguments of the calls.
ArgRefIds(d) == Ids(d) \cup {"zz"}
ArgPaths == {NoPath, <<"a.h">>}
ArgNames == {<<STAR>>, <<"x">>, <<"S">>, <<"S", NS, "x">>}
ArgScopes == {NoRef, "f1", "g"}
ArgKinds == {NoKinds, <<"FILE">>, <<"VARIABLE", "ENUMVALUE">>, <<"FILE", "FILE">>, <<>>}

Call(h, op, args, out) == [h |-> h, op |-> op, args |-> args, out |-> out]

\* A call that deletes the edges of the store.
FrameDroppingEdges ==
    /\ db' = [db EXCEPT !.hierarchy = EmptyTable]
    /\ UNCHANGED <<pc, err, open, todo, cur, manifest, details, dump, restored, running, env>>

\* What every call leaves as it is: the methods only SELECT.
Frame == UNCHANGED <<pc, err, db, open, todo, cur, manifest, details, dump, restored, running, env>>

CallGet ==
    \E h \in Handles :
        /\ Alive(h) /\ last = NoCall
        /\ \E refid \in ArgRefIds(Store(h)) : \E out \in Get(Store(h), refid) :
              last' = Call(h, "get", <<refid>>, out)
        /\ Frame

CallFindParents ==
    \E h \in Handles :
        /\ Alive(h) /\ last = NoCall
        /\ \E refid \in ArgRefIds(Store(h)) :
              last' = Call(h, "find_parents", <<refid>>, Ok(FindParents(Store(h), refid)))
        /\ Frame

CallFindChildren ==
    \E h \in Handles :
        /\ Alive(h) /\ last = NoCall
        /\ \E refid \in ArgRefIds(Store(h)) :
              last' = Call(h, "find_children", <<refid>>, Ok(FindChildren(Store(h), refid)))
        /\ Frame

CallFind ==
    \E h \in Handles :
        /\ Alive(h) /\ last = NoCall
        /\ \E kinds \in ArgKinds, no_parent \in BOOLEAN :
              last' = Call(h, "find", <<kinds, no_parent>>,
                           Find(Store(h), kinds, no_parent))
        /\ Frame

CallResolveTarget ==
    \E h \in Handles :
        /\ Alive(h) /\ last = NoCall
        /\ \E path \in ArgPaths, name \in ArgNames, scope \in ArgScopes :
              \E out \in ResolveTarget(Store(h), Target(path, name), scope) :
                  last' = Call(h, "resolve_target", <<Target(path, name), scope>>, out)
        /\ Frame

CallResolveName ==
    \E h \in Handles :
        /\ Alive(h) /\ last = NoCall
        /\ \E kind \in {NoKind, "VARIABLE"}, name \in {<<"x">>, <<"S">>},
              scope \in ArgScopes :
              \E out \in ResolveName(Store(h), kind, name, scope) :
                  last' = Call(h, "resolve_name", <<kind, name, scope>>, out)
        /\ Frame

CallRefidToTarget ==
    \E h \in Handles :
        /\ Alive(h) /\ last = NoCall
        /\ \E refid \in ArgRefIds(Store(h)) : \E out \in RefidToTarget(Store(h), refid) :
              last' = Call(h, "refid_to_target", <<refid>>, out)
        /\ Frame

CallGuessDesctype ==
    \E h \in Handles :
        /\ Alive(h) /\ last = NoCall
        /\ \E refid \in ArgRefIds(Store(h)) : \E out \in GuessDesctype(Store(h), refid) :
              last' = Call(h, "guess_desctype", <<refid>>, out)
        /\ Frame

CallGetTree ==
    \E h \in Handles :
        /\ Alive(h) /\ last = NoCall
        /\ \E refid \in ArgRefIds(Store(h)) : \E out \in GetTree(Store(h), refid) :
              last' = Call(h, "get_tree", <<refid>>, out)
        /\ Frame

\* The caller takes the outcome of the call.
Return ==
    /\ last /= NoCall
    /\ last' = NoCall
    /\ Frame

\* pickle.dumps of the built store
Pickle ==
    /\ pc = "built" /\ last = NoCall /\ running["db"] = Idle
    /\ dump = NoDump
    /\ dump' = GetState(db)
    /\ UNCHANGED <<pc, err, db, open, todo, cur, manifest, details, restored, last, running, env>>

\* pickle.loads, in the process the dump was handed to
Unpickle ==
    /\ dump /= NoDump /\ last = NoCall
    /\ restored = NoDb
    /\ restored' = SetState(dump)
    /\ UNCHANGED <<pc, err, db, open, todo, cur, manifest, details, dump, last, running, env>>

Query ==
    \/ CallGet
    \/ CallFindParents
    \/ CallFindChildren
    \/ CallFind
    \/ CallResolveTarget
    \/ CallResolveName
    \/ CallRefidToTarget
    \/ CallGuessDesctype
    \/ CallGetTree
    \/ Return

Build ==
    \/ InitDbStep
    \/ ReadIndexMember
    \/ ReadIndexCompound
    \/ LoadNextInner
    \/ ReadInner
    \/ Vacuum

Next == Build \/ Query \/ Pickle \/ Unpickle

Spec == Init /\ [][Next]_vars

(***************************************************************************)
(* Readers in parallel, each with a handle of its own                      *)
(***************************************************************************)
\* The "end" events of an index.xml in their order, then the "start" events
\* of its detail files.
Input(index, inner) == [index |-> index, inner |-> inner]

FileF1 == Elem("compound", "f1", "file", <<"a.h">>)
FileF2 == Elem("compound", "f2", "file", <<"a.h">>)
StructS == Elem("compound", "s", "struct", <<"S">>)

\* The documentation the readers share: a file with a variable and a
\* struct, two files of one name with a variable each, and a file with an
\* enum and its value.
SharedInputs ==
    { Input(<<ManifestEntry(VarV, "f1"), ManifestEntry(FileF1, NoRef),
              ManifestEntry(StructS, NoRef)>>,
            <<DetailEntry("f1", InnerClassS)>>),
      Input(<<ManifestEntry(VarW, "f1"), ManifestEntry(FileF1, NoRef),
              ManifestEntry(VarW, "f2"), ManifestEntry(FileF2, NoRef)>>,
            <<>>),
      Input(<<ManifestEntry(EnumE, "f1"), ManifestEntry(ValueR, "f1"),
              ManifestEntry(FileF1, NoRef)>>,
            <<DetailEntry("f1", EnumValueR)>>) }

Range(seq) == {seq[i] : i \in 1..Len(seq)}

\* _read_index over the events of index.xml, up to the first exception
RECURSIVE ReadIndex(_, _)
ReadIndex(out, entries) ==
    IF entries = <<>> \/ out.err /= "none" THEN out
    ELSE ReadIndex(ReadIndexElem(out.db, Head(entries).elem, Head(entries).parent),
                   Tail(entries))

\* _load_all_inner over the events of the detail files, up to the first
\* exception
RECURSIVE LoadAllInner(_, _)
LoadAllInner(out, entries) ==
    IF entries = <<>> \/ out.err /= "none" THEN out
    ELSE LoadAllInner(ReadInnerNode(out.db, Head(entries).node,
                                    Head(entries).compound),
                      Tail(entries))

\* DoxyDB.__init__ on an input
Construct(input) ==
    LoadAllInner(ReadIndex(Outcome("none", NewDb), input.index), input.inner)

\* The outcomes the method op of a handle may have on its database d.
Method(d, op, args) ==
    CASE op = "get" -> Get(d, args[1])
      [] op = "find_parents" -> {Ok(FindParents(d, args[1]))}
      [] op = "find_children" -> {Ok(FindChildren(d, args[1]))}
      [] op = "find" -> {Find(d, args[1], args[2])}
      [] op = "resolve_target" -> ResolveTarget(d, args[1], args[2])
      [] op = "resolve_name" -> ResolveName(d, args[1], args[2], args[3])
      [] op = "refid_to_target" -> RefidToTarget(d, args[1])
      [] op = "guess_desctype" -> GuessDesctype(d, args[1])
      [] op = "get_tree" -> GetTree(d, args[1])

\* A call of a reader: "called" before its first statement, "got" between
\* the self.get of get_tree and what follows, "done" with its outcome.
Running(phase, op, args, part, out) ==
    [phase |-> phase, op |-> op, args |-> args, part |-> part, out |-> out]

Called(op, args) == Running("called", op, args, NoCall, NoCall)

\* A statement run through the handle h that empties the hierarchy of the
\* other handle.
UntouchedButOther(h) ==
    /\ db' = IF h = "db" THEN db ELSE [db EXCEPT !.hierarchy = EmptyTable]
    /\ restored' = IF h = "restored" \/ restored = NoDb THEN restored
                   ELSE [restored EXCEPT !.hierarchy = EmptyTable]
    /\ UNCHANGED <<pc, err, open, todo, cur, manifest, details, dump, last, env>>

\* What a statement run through the handle h leaves as it is: the
\* connection of h is its own, and the methods only SELECT.
Untouched(h) ==
    UNCHANGED <<pc, err, db, open, todo, cur, manifest, details, dump, restored, last, env>>

\* The reader of a handle calls a method of it.
Begin ==
    \E h \in Handles :
        /\ Alive(h) /\ running[h] = Idle
        /\ \/ \E op \in {"get", "find_parents", "find_children",
                         "refid_to_target", "guess_desctype", "get_tree"},
                 refid \in ArgRefIds(Store(h)) :
                 running' = [running EXCEPT ![h] = Called(op, <<refid>>)]
           \/ \E kinds \in ArgKinds, no_parent \in BOOLEAN :
                 running' = [running EXCEPT ![h] = Called("find", <<kinds, no_parent>>)]
           \/ \E path \in ArgPaths, name \in ArgNames, scope \in ArgScopes :
                 running' = [running EXCEPT
                                ![h] = Called("resolve_target",
                                              <<Target(path, name), scope>>)]
           \/ \E kind \in {NoKind, "VARIABLE"}, name \in {<<"x">>, <<"S">>},
                 scope \in ArgScopes :
                 running' = [running EXCEPT
                                ![h] = Called("resolve_name", <<kind, name, scope>>)]
        /\ Untouched(h)

\* The statements of a method other than get_tree, on the connection of the
\* handle.
Execute ==
    \E h \in Handles :
        /\ running[h].phase = "called"
        /\ running[h].op /= "get_tree"
        /\ \E out \in Method(Store(h), running[h].op, running[h].args) :
              running' = [running EXCEPT ![h].phase = "done", ![h].out = out]
        /\ Untouched(h)

\* get_tree: self.get(refid)
ExecuteGet ==
    \E h \in Handles :
        /\ running[h].phase = "called"
        /\ running[h].op = "get_tree"
        /\ \E got \in Get(Store(h), running[h].args[1]) :
              running' = [running EXCEPT ![h].phase = "got", ![h].part = got]
        /\ Untouched(h)

\* get_tree after self.get(refid): the exception of get, or _first_parent
\* and the detail file
ExecuteTree ==
    \E h \in Handles :
        /\ running[h].phase = "got"
        /\ \E out \in GetTreeOf(Store(h), running[h].args[1], running[h].part) :
              running' = [running EXCEPT ![h].phase = "done", ![h].out = out]
        /\ Untouched(h)

\* The reader takes the outcome of its call.
End ==
    \E h \in Handles :
        /\ running[h].phase = "done"
        /\ running' = [running EXCEPT ![h] = Idle]
        /\ Untouched(h)

\* A store built from one of the inputs, before any call.
ReadersInit ==
    \E input \in SharedInputs :
        /\ Construct(input).err = "none"
        /\ pc = "built"
        /\ err = "none"
        /\ db = Construct(input).db
        /\ open = NoElem
        /\ todo = {}
        /\ cur = NoRef
        /\ manifest = Range(input.index)
        /\ details = Range(input.inner)
        /\ dump = NoDump
        /\ restored = NoDb
        /\ last = NoCall
        /\ running = NoneRunning
        /\ env = NoEnv

ReadersNext ==
    \/ Pickle
    \/ Unpickle
    \/ Begin
    \/ Execute
    \/ ExecuteGet
    \/ ExecuteTree
    \/ End

ReadersSpec == ReadersInit /\ [][ReadersNext]_vars

(***************************************************************************)
(* The recursive queries of refid_to_target and resolve_target, hop by hop *)
(***************************************************************************)
\* The most components of the name of a target walked down.
MaxComponents == 3

\* Documentation whose hierarchy has a loop: a struct that is its own inner
\* class, the same below a file and with a variable, and a file and a struct
\* that are each the inner element of the other.
LoopInputs ==
    { Input(<<ManifestEntry(StructS, NoRef)>>,
            <<DetailEntry("s", InnerClassS)>>),
      Input(<<ManifestEntry(VarW, "s"), ManifestEntry(StructS, NoRef),
              ManifestEntry(FileF1, NoRef)>>,
            <<DetailEntry("s", InnerClassS), DetailEntry("f1", InnerClassS)>>),
      Input(<<ManifestEntry(StructS, NoRef), ManifestEntry(FileF1, NoRef)>>,
            <<DetailEntry("f1", InnerClassS), DetailEntry("s", InnerFileF1)>>) }

\* The names of the targets walked down: up to n components, each the name
\* of the struct, of the file or of the variable.
RECURSIVE WalkNames(_)
WalkNames(n) ==
    IF n = 1 THEN {<<"S">>, <<"a.h">>, <<"x">>}
    ELSE WalkNames(n - 1)
         \cup {c \o <<NS>> \o rest : c \in {<<"S">>, <<"a.h">>},
                                     rest \in WalkNames(n - 1)}

\* The recursive table "parent" while it grows: the rows of the levels it
\* holds, the rows waiting in the queue, the rows LIMIT still lets in.
Parent(levels, queue, budget) ==
    [levels |-> levels, queue |-> queue, budget |-> budget]

\* The recursive table "follow" while it grows: the level of the rows in the
\* queue, those rows, and the rows of the level the final SELECT asks for.
Followed(level, queue, found) == [level |-> level, queue |-> queue, found |-> found]

\* refid_to_target is called: the initial SELECT of "parent".
BeginClimb ==
    /\ pc = "built" /\ running["db"] = Idle
    /\ \E refid \in ArgRefIds(db) :
          running' = [running EXCEPT
                         !["db"] = Running("up", "refid_to_target", <<refid>>,
                                           Parent(<<>>,
                                                  IF refid \in Ids(db) THEN {refid}
                                                  ELSE {},
                                                  ParentLimit),
                                           NoCall)]
    /\ Untouched("db")

\* A "parent" that takes no notice of its LIMIT.
ClimbedUnlimited(t) ==
    {Parent(Append(t.levels, t.queue), Up(db, t.queue), t.budget)}

\* One hop of "parent": the rows of the queue enter the table, as far as
\* LIMIT lets them, and their parents of no synthetic kind are queued.
Climbed(t) ==
    IF Cardinality(t.queue) <= t.budget
    THEN {Parent(Append(t.levels, t.queue), Up(db, t.queue),
                 t.budget - Cardinality(t.queue))}
    ELSE {Parent(Append(t.levels, cut), {}, 0) :
             cut \in {c \in SUBSET t.queue : Cardinality(c) = t.budget}}

Climb ==
    /\ running["db"].phase = "up"
    /\ running["db"].part.queue /= {}
    /\ running["db"].part.budget > 0
    /\ \E t \in Climbed(running["db"].part) :
          running' = [running EXCEPT !["db"].part = t]
    /\ Untouched("db")

\* The queue of "parent" is empty or LIMIT is reached: the rows grouped by
\* level, and the result of refid_to_target.
FinishClimb ==
    /\ running["db"].phase = "up"
    /\ running["db"].part.queue = {} \/ running["db"].part.budget = 0
    /\ \E nodes \in GroupByLevel(db, running["db"].part.levels) :
          running' = [running EXCEPT !["db"].phase = "done",
                                     !["db"].out = RefidToTargetOf(db, nodes)]
    /\ Untouched("db")

\* resolve_target is called: the initial SELECT of "follow".
BeginDescend ==
    /\ pc = "built" /\ running["db"] = Idle
    /\ \E path \in ArgPaths, name \in WalkNames(MaxComponents) \cup {<<STAR>>},
          scope \in {NoRef, "s"} :
          LET target == Target(path, name)
              files == Follow(db, path, NameComponents(target), 0)
          IN running' = [running EXCEPT
                            !["db"] = Running("down", "resolve_target",
                                              <<target, scope>>,
                                              Followed(0, files,
                                                       IF name = <<STAR>> THEN files
                                                       ELSE {}),
                                              NoCall)]
    /\ Untouched("db")

\* One hop of "follow": the children of the rows of the queue whose barename
\* is the component of their level; the level the name has no component for
\* has no children.
Descend ==
    /\ running["db"].phase = "down"
    /\ running["db"].part.queue /= {}
    /\ LET t == running["db"].part
           target == running["db"].args[1]
           components == NameComponents(target)
           next == IF t.level >= Len(components) THEN {}
                   ELSE {p[1].child : p \in {q \in JoinChild(db) :
                            /\ q[1].parent \in t.queue
                            /\ Barename(q[2].name) = components[t.level + 1]}}
       IN running' = [running EXCEPT
                         !["db"].part =
                             Followed(t.level + 1, next,
                                      IF target.name /= <<STAR>>
                                         /\ t.level + 1 = Len(components)
                                      THEN next ELSE t.found)]
    /\ Untouched("db")

\* The queue of "follow" is empty: the final SELECT and _cur_to_refid.
FinishDescend ==
    /\ running["db"].phase = "down"
    /\ running["db"].part.queue = {}
    /\ \E out \in CurToRefid(ScopeRows(db, running["db"].part.found,
                                       running["db"].args[2]),
                             running["db"].args[2] /= NoRef) :
          running' = [running EXCEPT !["db"].phase = "done", !["db"].out = out]
    /\ Untouched("db")

\* A store built from one of the inputs with a loop, before any call.
WalkInit ==
    \E input \in LoopInputs :
        /\ Construct(input).err = "none"
        /\ pc = "built"
        /\ err = "none"
        /\ db = Construct(input).db
        /\ open = NoElem
        /\ todo = {}
        /\ cur = NoRef
        /\ manifest = Range(input.index)
        /\ details = Range(input.inner)
        /\ dump = NoDump
        /\ restored = NoDb
        /\ last = NoCall
        /\ running = NoneRunning
        /\ env = NoEnv

WalkNext ==
    \/ BeginClimb
    \/ Climb
    \/ FinishClimb
    \/ BeginDescend
    \/ Descend
    \/ FinishDescend
    \/ End

\* A query that has begun goes on until it returns.
WalkSpec ==
    /\ WalkInit
    /\ [][WalkNext]_vars
    /\ WF_vars(Climb)
    /\ WF_vars(FinishClimb)
    /\ WF_vars(Descend)
    /\ WF_vars(FinishDescend)

(***************************************************************************)
(* directives.py: DoxyExtractor.run and the scope stack                    *)
(***************************************************************************)
\* The most runs of DoxyExtractor in progress at once, and the most children
\* one run includes.
MaxRuns == 3
MaxChildren == 2

\* What _get_current_scope returns on an empty stack: 0.
ZeroScope == "0"

\* A reference string as ENTITY_RE splits it: form is "target", "refid",
\* "name", or "none" when the string does not match.
RefStr(form, name, refid) == [form |-> form, name |-> name, refid |-> refid]

RefStrings ==
    { RefStr("none", <<>>, NoRef),
      RefStr("target", <<"S">>, NoRef),
      RefStr("target", <<"x">>, NoRef),
      RefStr("name", <<"x">>, NoRef),
      RefStr("refid", <<>>, "f1"),
      RefStr("refid", <<>>, "zz") }

\* arguments[0] of a directive: a reference string, or a RefId.
StrArg(ref_str) == [isref |-> FALSE, ref_str |-> ref_str]
RefArg(refid) == [isref |-> TRUE, ref_str |-> RefStr("refid", <<>>, refid)]

\* A call of DoxyExtractor.run in progress: its argument, ref once it is
\* known, where it is ("start", "try", "content", "children") and the
\* arguments of the children it has not run yet.
Run(arg, ref, at, kids) == [arg |-> arg, ref |-> ref, at |-> at, kids |-> kids]

Front(seq) == SubSeq(seq, 1, Len(seq) - 1)

\* The run whose caller is none of the others, last.
Top == env.runs[Len(env.runs)]

\* env.ref_context.setdefault('doxy:refid', [])
SetDefault(ctx) == [has |-> TRUE, stack |-> ctx.stack]

\* _get_current_scope, after setdefault
CurrentScope(ctx) ==
    IF ctx.stack = <<>> THEN ZeroScope ELSE ctx.stack[Len(ctx.stack)]

\* resolve_refstr once the string has matched: the outcomes of the call of
\* the store.
ResolveRefstr(d, ref_str, scope) ==
    IF ref_str.form = "target"
    THEN ResolveTarget(d, Target(NoPath, ref_str.name), scope)
    ELSE IF ref_str.form = "refid"
    THEN {IF got.exc = "none" THEN Ok(ref_str.refid) ELSE got :
             got \in Get(d, ref_str.refid)}
    ELSE ResolveName(d, NoKind, ref_str.name, scope)

\* A run that pops its identifier only when the block returns.
ExitTryOnReturn(ctx, raised) ==
    IF raised THEN ctx ELSE [ctx EXCEPT !.stack = Front(@)]

\* finally: context_stack.pop()
ExitTry(ctx, raised) == [ctx EXCEPT !.stack = Front(@)]

\* No exception is on its way and resolve_refstr is not in progress.
Quiet == env.exc = "none" /\ env.scope = "none"

\* docutils runs a directive of the document, or one of the content of the
\* directive being rendered.
RunDirective ==
    /\ pc = "built" /\ Quiet
    /\ Len(env.runs) < MaxRuns
    /\ IF env.runs = <<>> THEN TRUE ELSE Top.at = "content"
    /\ \E ref_str \in RefStrings :
          env' = [env EXCEPT
                     !.runs = Append(@, Run(StrArg(ref_str), NoRef, "start", <<>>))]
    /\ UNCHANGED <<pc, err, db, open, todo, cur, manifest, details, dump, restored,
                   last, running>>

\* nodes_to_insert is consumed, after the finally: the next child runs.
RunChild ==
    /\ Quiet
    /\ env.runs /= <<>>
    /\ Top.at = "children" /\ Top.kids /= <<>>
    /\ env' = [env EXCEPT
                  !.runs = Append([@ EXCEPT ![Len(@)].kids = Tail(@)],
                                  Run(Head(Top.kids), NoRef, "start", <<>>))]
    /\ UNCHANGED <<pc, err, db, open, todo, cur, manifest, details, dump, restored,
                   last, running>>

\* run calls resolve_refstr: the string matches and _get_current_scope reads
\* the stack, or it does not match and InvalidEntity is raised.
GetCurrentScope ==
    /\ Quiet
    /\ env.runs /= <<>>
    /\ Top.at = "start" /\ ~Top.arg.isref
    /\ IF Top.arg.ref_str.form = "none"
       THEN env' = [env EXCEPT !.exc = "InvalidEntity"]
       ELSE env' = [env EXCEPT !.ref_context = SetDefault(@),
                               !.scope = CurrentScope(env.ref_context)]
    /\ UNCHANGED <<pc, err, db, open, todo, cur, manifest, details, dump, restored,
                   last, running>>

\* ref is known: resolve_refstr returns it, or arguments[0] is a RefId. Then
\* context_stack = env.ref_context['doxy:refid'] and context_stack.append(ref).
Enter ==
    /\ env.exc = "none"
    /\ env.runs /= <<>>
    /\ Top.at = "start"
    /\ IF Top.arg.isref THEN env.scope = "none" ELSE env.scope /= "none"
    /\ \E out \in IF Top.arg.isref THEN {Ok(Top.arg.ref_str.refid)}
                  ELSE ResolveRefstr(db, Top.arg.ref_str, env.scope) :
          IF out.exc /= "none"
          THEN env' = [env EXCEPT !.exc = out.exc, !.scope = "none"]
          ELSE IF ~env.ref_context.has
          THEN env' = [env EXCEPT !.exc = "KeyError", !.scope = "none"]
          ELSE env' = [env EXCEPT
                          !.scope = "none",
                          !.ref_context.stack = Append(@, out.val),
                          !.runs[Len(env.runs)] = Run(Top.arg, out.val, "try", <<>>)]
    /\ UNCHANGED <<pc, err, db, open, todo, cur, manifest, details, dump, restored,
                   last, running>>

\* run_reference: get_tree of ref, and the stylesheet.
RunReference ==
    /\ Quiet
    /\ env.runs /= <<>>
    /\ Top.at = "try"
    /\ \E tree \in GetTree(db, Top.ref) :
          IF tree.exc /= "none"
          THEN env' = [env EXCEPT !.exc = tree.exc]
          ELSE env' = [env EXCEPT !.runs[Len(env.runs)].at = "content"]
    /\ UNCHANGED <<pc, err, db, open, todo, cur, manifest, details, dump, restored,
                   last, running>>

\* target_role, in the document or in the content of the directive being
\* rendered, calls resolve_refstr.
Role ==
    /\ pc = "built" /\ Quiet
    /\ IF env.runs = <<>> THEN TRUE ELSE Top.at = "content"
    /\ env' = [env EXCEPT !.ref_context = SetDefault(@),
                          !.scope = CurrentScope(env.ref_context)]
    /\ UNCHANGED <<pc, err, db, open, todo, cur, manifest, details, dump, restored,
                   last, running>>

\* resolve_refstr returns to target_role, which catches RefError and lets
\* any other exception through.
RoleDone ==
    /\ env.exc = "none" /\ env.scope /= "none"
    /\ IF env.runs = <<>> THEN TRUE ELSE Top.at = "content"
    /\ \E e \in {"none", "Exception"} : env' = [env EXCEPT !.scope = "none", !.exc = e]
    /\ UNCHANGED <<pc, err, db, open, todo, cur, manifest, details, dump, restored,
                   last, running>>

\* The children of ref in hierarchy, as default_inclusion_policy finds them.
ChildrenOf(d, ref) == {h.child : h \in {x \in Rows(d.hierarchy) : x.parent = ref}}

\* The inclusion lists of a run: the children of ref, or the list a handler
\* of antidox-include-default returns.
InclusionLists(d, ref, n) ==
    LET args == {RefArg(c) : c \in ChildrenOf(d, ref)}
                \cup {StrArg(RefStr("target", <<"x">>, NoRef))}
    IN {kids \in UNION {[1..k -> args] : k \in 0..n} :
           \A i, j \in 1..Len(kids) : i /= j => kids[i] /= kids[j]}

\* The end of the try block: the inclusion list is made and nodes_to_insert
\* is created without running any child, or a handler raises; then finally.
Leave ==
    /\ Quiet
    /\ env.runs /= <<>>
    /\ Top.at = "content"
    /\ \/ env' = [env EXCEPT !.exc = "Exception"]
       \/ \E kids \in InclusionLists(db, Top.ref,
                                     IF Len(env.runs) < MaxRuns THEN MaxChildren
                                     ELSE 0) :
             env' = [env EXCEPT !.ref_context = ExitTry(@, FALSE),
                                !.runs[Len(env.runs)].at = "children",
                                !.runs[Len(env.runs)].kids = kids]
    /\ UNCHANGED <<pc, err, db, open, todo, cur, manifest, details, dump, restored,
                   last, running>>

\* run returns its nodes once every child has run.
ReturnRun ==
    /\ Quiet
    /\ env.runs /= <<>>
    /\ Top.at = "children" /\ Top.kids = <<>>
    /\ env' = [env EXCEPT !.runs = Front(@)]
    /\ UNCHANGED <<pc, err, db, open, todo, cur, manifest, details, dump, restored,
                   last, running>>

\* An exception leaves the innermost run, through its finally when it is in
\* the try block; out of the outermost run it is Sphinx that reports it.
Propagate ==
    /\ env.exc /= "none"
    /\ IF env.runs = <<>>
       THEN env' = [env EXCEPT !.exc = "none"]
       ELSE env' = [env EXCEPT
                       !.runs = Front(@),
                       !.ref_context = IF Top.at \in {"try", "content"}
                                       THEN ExitTry(@, TRUE) ELSE @]
    /\ UNCHANGED <<pc, err, db, open, todo, cur, manifest, details, dump, restored,
                   last, running>>

\* The built store of a project, and the environment of a document of it.
DirectivesInit ==
    \E input \in SharedInputs :
        /\ pc = "built"
        /\ err = "none"
        /\ db = Construct(input).db
        /\ open = NoElem
        /\ todo = {}
        /\ cur = NoRef
        /\ manifest = Range(input.index)
        /\ details = Range(input.inner)
        /\ dump = NoDump
        /\ restored = NoDb
        /\ last = NoCall
        /\ running = NoneRunning
        /\ env = NoEnv

DirectivesNext ==
    \/ RunDirective
    \/ RunChild
    \/ GetCurrentScope
    \/ Enter
    \/ RunReference
    \/ Role
    \/ RoleDone
    \/ Leave
    \/ ReturnRun
    \/ Propagate

DirectivesSpec == DirectivesInit /\ [][DirectivesNext]_vars

(***************************************************************************)
(* RefId and Target strings, character by character                        *)
(***************************************************************************)
\* The longest refid string and the longest target string parsed.
MaxRefIdChars == 5
MaxTargetChars == 7

\* The characters of the strings: a letter, a digit that is "1", the escape
\* "_" and, for the targets, the separators of a path and of a name.
RefIdChars == {"a", "1", "_", "/"}
TargetChars == {"a", "/", ".", ":"}

Strings(chars, n) == UNION {[1..m -> chars] : m \in 0..n}

\* [A-Za-z0-9-] and \w|- of _refid_re
IdChars == {"a", "1"}
WordChars == {"a", "1", "_"}

\* ((?:[A-Za-z0-9-]+)|(?:_[^1]))+ from position j on
RECURSIVE IsIdFrom(_, _)
IsIdFrom(s, j) ==
    IF j > Len(s) THEN TRUE
    ELSE IF s[j] \in IdChars THEN IsIdFrom(s, j + 1)
    ELSE IF s[j] = "_" /\ j + 1 <= Len(s) /\ s[j + 1] /= "1"
    THEN IsIdFrom(s, j + 2)
    ELSE FALSE

IsId(s) == Len(s) > 0 /\ IsIdFrom(s, 1)

\* (?:\w|-)+
IsWord(s) == Len(s) > 0 /\ \A i \in 1..Len(s) : s[i] \in WordChars

Before(s, k) == SubSeq(s, 1, k - 1)
After(s, k) == SubSeq(s, k + 2, Len(s))

\* The positions of the two characters in s.
Positions(s, two) ==
    {k \in 1..(Len(s) - 1) : s[k] = two[1] /\ s[k + 1] = two[2]}

Greatest(S) == CHOOSE x \in S : \A y \in S : y <= x

\* RefId.__new__ of one string: _refid_re.fullmatch, whose greedy prefix
\* group ends at the last "_1" that leaves a prefix and an id.
RefIdOf(s) ==
    LET ks == {k \in Positions(s, <<"_", "1">>) :
                  IsWord(Before(s, k)) /\ IsId(After(s, k))}
    IN IF ks /= {}
       THEN Ok([prefix |-> Before(s, Greatest(ks)), id_ |-> After(s, Greatest(ks))])
       ELSE IF IsId(s) THEN Ok([prefix |-> <<>>, id_ |-> s])
       ELSE Exc("DoxyFormatError")

\* A __str__ that writes the separator before an empty prefix too.
RefIdStrAlways(r) == r.prefix \o <<"_", "1">> \o r.id_

\* RefId.__str__
RefIdStr(r) ==
    IF r.prefix /= <<>> THEN r.prefix \o <<"_", "1">> \o r.id_ ELSE r.id_

\* The characters of s from position j to the first c after it, c excluded.
RECURSIVE UpTo(_, _, _)
UpTo(s, j, c) ==
    IF j > Len(s) \/ s[j] = c THEN <<>> ELSE <<s[j]>> \o UpTo(s, j + 1, c)

\* str.split of one character
RECURSIVE SplitAt(_, _, _)
SplitAt(s, j, c) ==
    LET part == UpTo(s, j, c)
    IN IF j + Len(part) > Len(s) THEN <<part>>
       ELSE <<part>> \o SplitAt(s, j + Len(part) + 1, c)

\* [^/]+\.[^/:.]+ : a string without "/" whose last "." has a character
\* before it and, after it, characters that are neither ":" nor "."
IsFileName(s) ==
    \E j \in 2..(Len(s) - 1) :
        /\ s[j] = "."
        /\ \A i \in (j + 1)..Len(s) : s[i] \notin {":", "."}

\* (?:[^/]+/)*[^/]+\.[^/:.]+
IsPath(s) ==
    LET parts == SplitAt(s, 1, "/")
    IN /\ \A i \in 1..Len(parts) : parts[i] /= <<>>
       /\ IsFileName(parts[Len(parts)])

\* Target.__new__ of one string: _target_re.fullmatch, whose greedy path
\* group ends at the last "::" that leaves a path and a name.
TargetOf(s) ==
    LET ks == {k \in Positions(s, <<":", ":">>) :
                  IsPath(Before(s, k)) /\ After(s, k) /= <<>>}
    IN IF ks /= {}
       THEN Ok(Target(Before(s, Greatest(ks)), After(s, Greatest(ks))))
       ELSE IF s /= <<>> THEN Ok(Target(NoPath, s))
       ELSE Exc("ValueError")

\* Target.__str__
TargetStr(t) ==
    IF t.path /= NoPath THEN t.path \o <<":", ":">> \o t.name ELSE t.name

\* Target.name_components of a name of characters: str.split("::"), from
\* position j on
RECURSIVE NameComponentsFrom(_, _, _)
NameComponentsFrom(name, j, acc) ==
    IF j > Len(name) THEN <<acc>>
    ELSE IF j < Len(name) /\ name[j] = ":" /\ name[j + 1] = ":"
    THEN <<acc>> \o NameComponentsFrom(name, j + 2, <<>>)
    ELSE NameComponentsFrom(name, j + 1, Append(acc, name[j]))

\* RefId(s) and str() of it
CallRefId ==
    /\ pc = "strings" /\ last = NoCall
    /\ \E s \in Strings(RefIdChars, MaxRefIdChars) :
          LET r == RefIdOf(s)
          IN last' = Call("str", "RefId", <<s>>,
                          IF r.exc /= "none" THEN r
                          ELSE Ok([parsed |-> r.val, str |-> RefIdStr(r.val)]))
    /\ Frame

\* Target(s), str() of it and its name_components
CallTarget ==
    /\ pc = "strings" /\ last = NoCall
    /\ \E s \in Strings(TargetChars, MaxTargetChars) :
          LET t == TargetOf(s)
          IN last' = Call("str", "Target", <<s>>,
                          IF t.exc /= "none" THEN t
                          ELSE Ok([parsed |-> t.val, str |-> TargetStr(t.val),
                                   components |->
                                       NameComponentsFrom(t.val.name, 1, <<>>)]))
    /\ Frame

\* No store: a caller that parses and formats strings.
StringsInit ==
    /\ pc = "strings"
    /\ err = "none"
    /\ db = NoDb
    /\ open = NoElem
    /\ todo = {}
    /\ cur = NoRef
    /\ manifest = {}
    /\ details = {}
    /\ dump = NoDump
    /\ restored = NoDb
    /\ last = NoCall
    /\ running = NoneRunning
    /\ env = NoEnv

StringsNext == CallRefId \/ CallTarget \/ Return

StringsSpec == StringsInit /\ [][StringsNext]_vars

(***************************************************************************)
(* Paths compared by _match_path                                           *)
(***************************************************************************)
\* The longest path compared, in tokens.
MaxPathTokens == 3

\* The tokens of the names of files and of the path filters: a file name, a
\* directory, a name that starts with ".", the "." component and "/".
NameTokens == {"a.h", "d", ".hid", SEP}
FilterTokens == {"a.h", "d", ".hid", DOT, SEP}

\* The paths of up to n tokens: between two "/" there is one token or none.
PathStrings(tokens, n) ==
    {p \in UNION {[1..m -> tokens] : m \in 0..n} :
        \A i \in 1..(Len(p) - 1) : p[i] = SEP \/ p[i + 1] = SEP}

\* _match_path(p1, p2) of a name and a filter
CallMatchPath ==
    /\ pc = "paths" /\ last = NoCall
    /\ \E p1 \in PathStrings(NameTokens, MaxPathTokens),
          p2 \in PathStrings(FilterTokens, MaxPathTokens) :
          last' = Call("str", "match_path", <<p1, p2>>, Ok(MatchPath(p1, p2)))
    /\ Frame

\* No store: a caller that compares paths.
PathsInit ==
    /\ pc = "paths"
    /\ err = "none"
    /\ db = NoDb
    /\ open = NoElem
    /\ todo = {}
    /\ cur = NoRef
    /\ manifest = {}
    /\ details = {}
    /\ dump = NoDump
    /\ restored = NoDb
    /\ last = NoCall
    /\ running = NoneRunning
    /\ env = NoEnv

PathsNext == CallMatchPath \/ Return

PathsSpec == PathsInit /\ [][PathsNext]_vars

(***************************************************************************)
(* Properties                                                              *)
(***************************************************************************)
TableNames == {"elements", "hierarchy", "compound_kinds", "syn_compound_kinds"}

HasEdge(d, child, parent) == EdgeRow(child, parent) \in Rows(d.hierarchy)

\* The rows of elements of kind file.
Files(d) == {e \in Rows(d.elements) : e.kind = "FILE"}

\* C1: once construction has completed, no step (any call to get,
\* find_parents, find_children, find, resolve_target, resolve_name,
\* refid_to_target, guess_desctype or get_tree, failing ones included)
\* changes the rows of elements or of hierarchy, in the store or in its
\* unpickled copy.
QueriesReadOnly ==
    [][pc = "built" =>
          /\ db'.elements = db.elements
          /\ db'.hierarchy = db.hierarchy
          /\ restored /= NoDb => /\ restored'.elements = restored.elements
                                 /\ restored'.hierarchy = restored.hierarchy]_vars

\* A call on a store with edges has failed.
QueriesReadOnlyWitness ==
    /\ pc = "built"
    /\ last.op /= "none"
    /\ last.h = "db"
    /\ last.out.exc /= "none"
    /\ Rows(db.hierarchy) /= {}

\* The outcomes a call may have on the database d.
Answers(d, call) ==
    CASE call.op = "get" -> Get(d, call.args[1])
      [] call.op = "find_children" -> {Ok(FindChildren(d, call.args[1]))}
      [] call.op = "find_parents" -> {Ok(FindParents(d, call.args[1]))}
      [] call.op = "resolve_target" ->
            ResolveTarget(d, call.args[1], call.args[2])

\* C2: the store restored from the pickled dump of a built store holds the
\* rows of the original in all four tables, and get, find_children,
\* find_parents and resolve_target answer on either as on the other.
PickleRoundTrip ==
    restored /= NoDb =>
        /\ \A t \in TableNames : restored[t] = db[t]
        /\ (last.op \in {"get", "find_children", "find_parents", "resolve_target"}) =>
              /\ last.out \in Answers(db, last)
              /\ last.out \in Answers(restored, last)
              /\ Answers(db, last) = Answers(restored, last)

\* The unpickled copy of a store with edges has resolved a target.
PickleRoundTripWitness ==
    /\ restored /= NoDb
    /\ Rows(db.hierarchy) /= {}
    /\ last.op = "resolve_target"
    /\ last.h = "restored"
    /\ last.out.exc = "none"

\* The part of a name after its last "::".
RECURSIVE Stripped(_)
Stripped(name) ==
    IF \E i \in 1..Len(name) : name[i] = NS
    THEN Stripped(Tail(name))
    ELSE name

\* The identifiers at the end of a chain e_0 .. e_n: e_0 a file matching the
\* path of the target, an edge from each e_i to e_(i-1), the stripped name of
\* e_i the i-th component of the name of the target; n = 0 for the name "*".
ChainSet(d, target) ==
    LET c == Split(target.name, NS)
        n == IF target.name = <<STAR>> THEN 0 ELSE Len(c)
        roots == {e.refid : e \in {x \in Files(d) : MatchPath(x.name, target.path)}}
        IsChain(ch) ==
            /\ ch[0] \in roots
            /\ \A i \in 1..n :
                  /\ HasEdge(d, ch[i], ch[i - 1])
                  /\ \E e \in Rows(d.elements) :
                        e.refid = ch[i] /\ Stripped(e.name) = c[i]
    IN {ch[n] : ch \in {x \in [0..n -> Ids(d)] : IsChain(x)}}

\* The identifiers of the elements of a name, and of a kind if one is given.
NameSet(d, kind, name) ==
    {e.refid : e \in {x \in Rows(d.elements) :
                         x.name = name /\ (kind = NoKind \/ x.kind = kind)}}

\* The candidates and the scope of a call to resolve_target or resolve_name.
Candidates(d, call) ==
    IF call.op = "resolve_target" THEN ChainSet(d, call.args[1])
    ELSE NameSet(d, call.args[1], call.args[2])

ScopeOf(call) == call.args[Len(call.args)]

IsResolve(call) == call.op \in {"resolve_target", "resolve_name"}

\* C3: resolve_target and resolve_name without scope return the candidate
\* when there is exactly one, raise InvalidTarget when there is none, and
\* with two or more raise AmbiguousTarget with every candidate once.
UnscopedResolution ==
    (IsResolve(last) /\ ScopeOf(last) = NoRef) =>
        LET c == Candidates(Store(last.h), last)
        IN /\ c = {} => last.out = Exc("InvalidTarget")
           /\ Cardinality(c) = 1 => \E x \in c : last.out = Ok(x)
           /\ Cardinality(c) >= 2 =>
                 last.out = ExcWith("AmbiguousTarget", [x \in c |-> 1])

\* resolve_target of the bare name of two variables, both named so, has
\* raised AmbiguousTarget.
UnscopedResolutionWitness ==
    /\ last.op = "resolve_target"
    /\ last.args = <<Target(NoPath, <<"x">>), NoRef>>
    /\ last.out.exc = "AmbiguousTarget"
    /\ Rows(last.out.val) = {"v", "w"}

\* The candidates with an edge to the scope.
ChildrenOfScope(d, call) ==
    {x \in Candidates(d, call) : HasEdge(d, x, ScopeOf(call))}

\* C4: with a scope and several candidates, the one candidate with an edge to
\* the scope is returned; two or more such candidates raise AmbiguousTarget.
ScopedResolution ==
    (IsResolve(last) /\ ScopeOf(last) /= NoRef
        /\ Cardinality(Candidates(Store(last.h), last)) >= 2) =>
        LET inside == ChildrenOfScope(Store(last.h), last)
        IN /\ Cardinality(inside) = 1 => \E x \in inside : last.out = Ok(x)
           /\ Cardinality(inside) >= 2 => last.out.exc = "AmbiguousTarget"

\* A scope has picked one of two candidates.
ScopedResolutionWitness ==
    /\ last.op = "resolve_target"
    /\ ScopeOf(last) /= NoRef
    /\ Cardinality(Candidates(Store(last.h), last)) >= 2
    /\ last.out.exc = "none"

\* The candidates a call to resolve_target without scope has shown.
Shown(out) ==
    CASE out.exc = "none" -> {out.val}
      [] out.exc = "AmbiguousTarget" -> Rows(out.val)
      [] OTHER -> {}

\* C5: the candidates of resolve_target are the ends of the chains of
\* len(components) hops from a matching file (0 hops for "*"), each once:
\* they are what a call without scope returns or lists, any
\* AmbiguousTarget lists them, and any element returned is one of them.
CandidatesAreChainEnds ==
    last.op = "resolve_target" =>
        LET c == ChainSet(Store(last.h), last.args[1])
        IN /\ ScopeOf(last) = NoRef => Shown(last.out) = c
           /\ last.out.exc = "AmbiguousTarget" => last.out.val = [x \in c |-> 1]
           /\ last.out.exc = "InvalidTarget" => c = {}
           /\ last.out.exc = "none" => last.out.val \in c

\* A target of two components has resolved across a struct whose name has a
\* namespace, while the variable of the name is also a child of a file.
CandidatesAreChainEndsWitness ==
    /\ last.op = "resolve_target"
    /\ last.args = <<Target(NoPath, <<"S", NS, "x">>), NoRef>>
    /\ last.out = Ok("w")
    /\ ElemRow("s", <<"N", NS, "S">>, "STRUCT") \in Rows(Store(last.h).elements)

\* The identifiers S and all below them in hierarchy.
RECURSIVE Below(_, _)
Below(d, S) ==
    LET T == S \cup {h.child : h \in {x \in Rows(d.hierarchy) : x.parent \in S}}
    IN IF T = S THEN S ELSE Below(d, T)

\* The elements reachable from a file.
FileRooted(d) == Below(d, {f.refid : f \in Files(d)})

\* C6: for every element reachable from a file, refid_to_target returns a
\* target, and resolve_target of that target returns the element, when the
\* components of the target lead from a matching file to no other element.
TargetRoundTrip ==
    pc = "built" =>
        \A id \in FileRooted(db) : \A out \in RefidToTarget(db, id) :
            /\ out.exc = "none"
            /\ ChainSet(db, out.val) \subseteq {id} =>
                  ResolveTarget(db, out.val, NoRef) = {Ok(id)}

\* The names of the files other than f that match the name of f.
Homonyms(d, f) == {g \in Files(d) \ {f} : MatchPath(g.name, f.name)}

\* C7: refid_to_target of a file returns its name with "*", the name after
\* "./" when the name matches another file too, and resolve_target of the
\* target returned, without scope, returns the file.
FileTargetRoundTrip ==
    pc = "built" =>
        \A f \in Files(db) : \A out \in RefidToTarget(db, f.refid) :
            /\ out = Ok(Target(IF Homonyms(db, f) = {} THEN f.name
                               ELSE <<DOT, SEP>> \o f.name,
                               <<STAR>>))
            /\ ResolveTarget(db, out.val, NoRef) = {Ok(f.refid)}

\* The identifiers of the rows of a result.
RefIdsOf(result) == {r.refid : r \in Rows(result)}

\* C8: the members and the compounds find_children returns share no
\* element, the compounds are the children of a compound kind and the
\* members the others, and together they are the elements with an edge to
\* the parent, each once.
FindChildrenPartition ==
    last.op = "find_children" =>
        LET d == Store(last.h)
            parent == last.args[1]
            members == last.out.val[1]
            compounds == last.out.val[2]
            children == {h.child : h \in {x \in Rows(d.hierarchy) : x.parent = parent}}
        IN /\ last.out.exc = "none"
           /\ RefIdsOf(members) \cap RefIdsOf(compounds) = {}
           /\ \A r \in Rows(compounds) : r.kind \in Compounds /\ compounds[r] = 1
           /\ \A r \in Rows(members) : r.kind \notin Compounds /\ members[r] = 1
           /\ RefIdsOf(members) \cup RefIdsOf(compounds) = children
           /\ Cardinality(Rows(members)) + Cardinality(Rows(compounds))
                 = Cardinality(children)
           /\ \A r \in Rows(members) \cup Rows(compounds) :
                 ElemRow(r.refid, r.name, r.kind) \in Rows(d.elements)

\* find_children of a file has returned a member and a compound.
FindChildrenPartitionWitness ==
    /\ last.op = "find_children"
    /\ last.args = <<"f1">>
    /\ RefIdsOf(last.out.val[1]) /= {}
    /\ RefIdsOf(last.out.val[2]) = {"s"}

\* The enum values index.xml nests in a file, each with the file.
ValuesUnderFile ==
    {m \in manifest : /\ m.elem.tag = "member"
                      /\ m.elem.kind = "enumvalue"
                      /\ m.parent \in {f.refid : f \in Files(db)}}

\* The enums owning a value: those whose <memberdef> holds its <enumvalue>.
Owners(value) ==
    {n.node.parentId : n \in {x \in details : /\ x.node.tag = <<"enumvalue">>
                                               /\ x.node.parentTag = "memberdef"
                                               /\ x.node.id = value}}

\* C9: after the build, an enum value index.xml nests in a file has an edge
\* to the enum owning it and none to the file; find_children of the enum
\* lists it and find_children of the file does not.
EnumValuesUnderEnum ==
    pc = "built" =>
        \A m \in ValuesUnderFile :
            LET r == m.elem.refid
                ofFile == FindChildren(db, m.parent)
            IN /\ ~HasEdge(db, r, m.parent)
               /\ r \notin RefIdsOf(ofFile[1]) \cup RefIdsOf(ofFile[2])
               /\ \A e \in Owners(r) :
                     /\ HasEdge(db, r, e)
                     /\ r \in RefIdsOf(FindChildren(db, e)[1])
               /\ (last.op = "find_children" /\ last.args[1] = m.parent) =>
                     r \notin RefIdsOf(last.out.val[1]) \cup RefIdsOf(last.out.val[2])
               /\ (last.op = "find_children" /\ last.args[1] \in Owners(r)) =>
                     r \in RefIdsOf(last.out.val[1])

\* find_children of the enum has listed a value index.xml nests in the file.
EnumValuesUnderEnumWitness ==
    /\ pc = "built"
    /\ \E m \in ValuesUnderFile : "e" \in Owners(m.elem.refid)
    /\ last.op = "find_children"
    /\ last.args = <<"e">>
    /\ "r" \in RefIdsOf(last.out.val[1])

\* No identifier in two rows of elements, no row of a table twice.
UniqueRows(d) ==
    /\ \A e1, e2 \in Rows(d.elements) : e1.refid = e2.refid => e1 = e2
    /\ \A e \in Rows(d.elements) : d.elements[e] = 1
    /\ \A h \in Rows(d.hierarchy) : d.hierarchy[h] = 1

\* The element of index.xml is one _read_index inserts.
WellFormed(elem) ==
    /\ elem.tag \in {"compound", "member"}
    /\ TagSupported(elem.kind)
    /\ elem.name /= NoName

\* C10: a step of the build that reads an element whose identifier is in
\* elements does not raise and leaves the rows of elements as they are, and
\* the rows of hierarchy too if its edge is there; a step that reads a node
\* whose edge is in hierarchy does not raise and leaves hierarchy as it is;
\* at every point no identifier is in two rows of elements and no edge
\* twice in hierarchy.
IdempotentInsertion ==
    [][/\ db' /= NoDb => UniqueRows(db')
       /\ \A m \in manifest' \ manifest :
             (WellFormed(m.elem) /\ m.elem.refid \in Ids(db)) =>
                /\ pc' /= "failed"
                /\ db'.elements = db.elements
                /\ (m.parent = NoRef \/ HasEdge(db, m.elem.refid, m.parent)) =>
                      db'.hierarchy = db.hierarchy
       /\ \A n \in details' \ details :
             (\/ /\ n.node.tag = <<"enumvalue">>
                 /\ n.node.parentTag = "memberdef"
                 /\ HasEdge(db, n.node.id, n.node.parentId)
              \/ /\ n.node.tag[1] = "inner"
                 /\ HasEdge(db, n.node.id, n.compound)) =>
                /\ pc' /= "failed"
                /\ db' = db]_vars

\* A variable read again under another name and in another compound has kept
\* its first name and has an edge to either compound.
IdempotentInsertionWitness ==
    /\ db /= NoDb
    /\ ManifestEntry(VarVRenamed, "g") \in manifest
    /\ ElemRow("v", <<"x">>, "VARIABLE") \in Rows(db.elements)
    /\ HasEdge(db, "v", "f1")
    /\ HasEdge(db, "v", "g")

\* The rows of elements as results, each once.
ResultsOf(rows) == TableOf({SearchResult(e.refid, e.name, e.kind) : e \in rows})

\* C11: find_parents returns the elements of a compound kind that the
\* element has an edge to, each once, and no parent of another kind.
FindParentsCompounds ==
    last.op = "find_parents" =>
        LET d == Store(last.h)
            parents == {e \in Rows(d.elements) :
                           /\ HasEdge(d, last.args[1], e.refid)
                           /\ e.kind \in Compounds}
        IN last.out = Ok(ResultsOf(parents))

\* find_parents of an enum value with an edge to its enum has returned
\* nothing.
FindParentsCompoundsWitness ==
    /\ last.op = "find_parents"
    /\ last.args = <<"r">>
    /\ HasEdge(Store(last.h), "r", "e")
    /\ ElemRow("e", <<"E">>, "ENUM") \in Rows(Store(last.h).elements)
    /\ last.out = Ok(EmptyTable)

\* C12: find returns, each once, the elements whose kind is among the kinds
\* given (without kinds: is not subordinate) and, with no_parent, that are
\* the child of no edge.
FindSelects ==
    last.op = "find" =>
        LET d == Store(last.h)
            kinds == last.args[1]
            wanted == IF kinds = NoKinds THEN Kinds \ Subordinate
                      ELSE {kinds[i] : i \in 1..Len(kinds)}
            found == {e \in Rows(d.elements) :
                         /\ e.kind \in wanted
                         /\ last.args[2] =>
                               ~\E h \in Rows(d.hierarchy) : h.child = e.refid}
        IN last.out = Ok(ResultsOf(found))

\* The kinds of the rows of elements with an identifier among ids.
KindsOf(d, ids) == {e.kind : e \in {x \in Rows(d.elements) : x.refid \in ids}}

\* The parents, in elements and of no synthetic kind, of the elements of a
\* level.
ParentsOf(d, level) ==
    {e.refid : e \in {x \in Rows(d.elements) :
                         /\ x.kind \notin SyntheticCompounds
                         /\ \E c \in level : HasEdge(d, c, x.refid)}}

\* The elements the upward walk ends on: the last level with an element,
\* or the level at which the walk has its 20 rows.
RECURSIVE WalkTop(_, _, _)
WalkTop(d, level, rows) ==
    IF ParentsOf(d, level) = {} \/ rows <= Cardinality(level) THEN level
    ELSE WalkTop(d, ParentsOf(d, level), rows - Cardinality(level))

\* The elements of all the levels of the walk.
RECURSIVE WalkAll(_, _, _)
WalkAll(d, level, rows) ==
    IF ParentsOf(d, level) = {} \/ rows <= Cardinality(level) THEN level
    ELSE level \cup WalkAll(d, ParentsOf(d, level), rows - Cardinality(level))

\* The elements above ids in hierarchy, ids included.
RECURSIVE Above(_, _)
Above(d, S) ==
    LET T == S \cup {h.parent : h \in {x \in Rows(d.hierarchy) : x.child \in S}}
    IN IF T = S THEN S ELSE Above(d, T)

\* C13 as stated: refid_to_target raises InvalidTarget for an identifier
\* that is not in the store and for an element none of whose ancestors is a
\* file.
NoFileIsInvalidTarget ==
    (/\ last.op = "refid_to_target"
     /\ "FILE" \notin KindsOf(Store(last.h), Above(Store(last.h), {last.args[1]}))) =>
        last.out = Exc("InvalidTarget")

\* C13, amended: refid_to_target raises InvalidTarget for an identifier that
\* is not in the store, and only for such; for an element of the store whose
\* walk reaches no file it raises ConsistencyError.
NoFileIsError ==
    last.op = "refid_to_target" =>
        LET d == Store(last.h)
            id == last.args[1]
        IN /\ id \notin Ids(d) <=> last.out = Exc("InvalidTarget")
           /\ (id \in Ids(d) /\ "FILE" \notin KindsOf(d, WalkAll(d, {id}, ParentLimit))) =>
                 last.out = Exc("ConsistencyError")

\* refid_to_target of a group of the store has raised ConsistencyError.
NoFileIsErrorWitness ==
    /\ last.op = "refid_to_target"
    /\ last.args = <<"g">>
    /\ "g" \in Ids(Store(last.h))
    /\ last.out = Exc("ConsistencyError")

\* The path of a target without the "./" refid_to_target may put before it.
BarePath(path) ==
    IF Len(path) >= 2 /\ SubSeq(path, 1, 2) = <<DOT, SEP>>
    THEN SubSeq(path, 3, Len(path)) ELSE path

\* C14: refid_to_target raises ConsistencyError when the walk ends on no
\* file, raises it only when it ends on an element that is no file, and the
\* path of a target it returns is the name of a file.
WalkEndsOnFile ==
    (last.op = "refid_to_target" /\ last.args[1] \in Ids(Store(last.h))) =>
        LET d == Store(last.h)
            top == KindsOf(d, WalkTop(d, {last.args[1]}, ParentLimit))
        IN /\ "FILE" \notin top => last.out = Exc("ConsistencyError")
           /\ last.out.exc = "ConsistencyError" => top /= {"FILE"}
           /\ last.out.exc = "none" =>
                 /\ "FILE" \in top
                 /\ \E f \in Files(d) : BarePath(last.out.val.path) = f.name
                 /\ \A e \in Rows(d.elements) :
                       BarePath(last.out.val.path) = e.name => e.kind = "FILE"

\* refid_to_target of a variable of a struct that is in no file has raised
\* ConsistencyError.
WalkEndsOnFileWitness ==
    /\ last.op = "refid_to_target"
    /\ last.args = <<"w">>
    /\ HasEdge(Store(last.h), "w", "s")
    /\ "FILE" \notin KindsOf(Store(last.h), Above(Store(last.h), {"w"}))
    /\ last.out = Exc("ConsistencyError")

\* The <compound> or <member> has a kind outside the taxonomy.
Unsupported(elem) ==
    elem.tag \in {"compound", "member"} /\ ~TagSupported(elem.kind)

\* C15: a step of the build that reads a <compound> or a <member> of a kind
\* outside the taxonomy does not fail and inserts no row and no edge.
UnsupportedKindSkipped ==
    [][\A m \in manifest' \ manifest :
          Unsupported(m.elem) =>
             /\ pc' /= "failed"
             /\ db' = db]_vars

\* The <compound> or <member>, of a kind of the taxonomy, has no <name>.
Nameless(elem) ==
    /\ elem.tag \in {"compound", "member"}
    /\ TagSupported(elem.kind)
    /\ elem.name = NoName

Desctype(kind, parentKinds, error) ==
    CASE kind \in {"ENUM", "STRUCT", "UNION", "TYPEDEF"} -> {Ok("type")}
      [] kind = "DEFINE" -> {Ok("macro")}
      [] kind = "FUNCTION" -> {Ok("function")}
      [] kind = "VARIABLE" ->
            IF parentKinds \cap {"STRUCT", "UNION"} /= {}
            THEN {Ok("member")} ELSE {Ok("var")}
      [] OTHER -> {Exc(e) : e \in error}

\* The kinds of the elements of a compound kind the element has an edge to.
CompoundParentKinds(d, id) ==
    {e.kind : e \in {x \in Rows(d.elements) :
                        HasEdge(d, id, x.refid) /\ x.kind \in Compounds}}

\* A store of one element of a kind, and of a parent of another kind if one
\* is given.
StoreOf(kind, parentKind) ==
    LET d1 == InsertElementRow(NewDb, ElemRow("x", <<"x">>, kind))
    IN IF parentKind = NoKind THEN d1
       ELSE InsertEdgeRow(InsertElementRow(d1, ElemRow("p", <<"P">>, parentKind)),
                          EdgeRow("x", "p"))

\* guess_desctype answers as Desctype says, with the error given: the call
\* in progress and, computed once, the calls on the stores of one element
\* of each kind.
GuessesAs(error) ==
    /\ (last.op = "guess_desctype" /\ last.args[1] \in Ids(Store(last.h))) =>
          LET d == Store(last.h)
              id == last.args[1]
          IN \E k \in KindsOf(d, {id}) :
                last.out \in Desctype(k, CompoundParentKinds(d, id), error)
    /\ pc = "new" =>
          \A k \in Kinds, pk \in Compounds \cup Subordinate \cup {"ENUM", NoKind} :
              GuessDesctype(StoreOf(k, pk), "x")
                 \subseteq Desctype(k, {pk} \cap Compounds, error)

\* C17 as stated: guess_desctype returns 'type' for enum, struct, union and
\* typedef, 'macro' for define, 'function' for function, for a variable
\* 'member' if a compound parent is a struct or a union and else 'var', and
\* for any other kind fails with an error of the RefError family.
DesctypeOrRefError == GuessesAs(RefErrorFamily \cup {"UnclassifiableKind"})

\* C17, amended: the same, but for any other kind it raises ValueError, which
\* is no RefError.
DesctypeOrValueError ==
    /\ GuessesAs({"ValueError"})
    /\ "ValueError" \notin RefErrorFamily

\* guess_desctype of a variable of a struct has returned 'member' on a store
\* on which guess_desctype of the struct's file would raise ValueError.
DesctypeOrValueErrorWitness ==
    /\ last.op = "guess_desctype"
    /\ last.args = <<"w">>
    /\ HasEdge(Store(last.h), "w", "s")
    /\ last.out = Ok("member")
    /\ GuessDesctype(Store(last.h), "f1") = {Exc("ValueError")}

\* The elements of a compound kind.
CompoundElements(d) == {e.refid : e \in {x \in Rows(d.elements) : x.kind \in Compounds}}

\* The compounds holding an element that is no compound: its direct parents
\* or, for an element of a subordinate kind, the direct parents of its
\* direct parents.
Containing(d, id, kind) ==
    IF kind \in Subordinate
    THEN {p \in CompoundElements(d) :
             \E h \in Rows(d.hierarchy) : h.child = id /\ HasEdge(d, h.parent, p)}
    ELSE {p \in CompoundElements(d) : HasEdge(d, id, p)}

\* C18: get_tree reads the detail file of the element itself when it is of
\* a compound kind, else the detail file of a compound holding it, and
\* raises ConsistencyError when no compound holds it.
GetTreeFile ==
    (last.op = "get_tree" /\ last.args[1] \in Ids(Store(last.h))) =>
        LET d == Store(last.h)
            id == last.args[1]
        IN \E k \in KindsOf(d, {id}) :
              IF k \in Compounds
              THEN last.out = Ok([file |-> id, tag |-> "compounddef", id |-> id])
              ELSE IF Containing(d, id, k) = {}
              THEN last.out = Exc("ConsistencyError")
              ELSE /\ last.out.exc = "none"
                   /\ last.out.val.file \in Containing(d, id, k)
                   /\ last.out.val.id = id
                   /\ last.out.val.tag =
                         IF k \in Subordinate THEN "enumvalue" ELSE "memberdef"

\* get_tree of an enum value has read the detail file of the file of its
\* enum.
GetTreeFileWitness ==
    /\ last.op = "get_tree"
    /\ last.args = <<"r">>
    /\ HasEdge(Store(last.h), "r", "e")
    /\ HasEdge(Store(last.h), "e", "f1")
    /\ last.out = Ok([file |-> "f1", tag |-> "enumvalue", id |-> "r"])

\* The parts with the separator between them.
RECURSIVE JoinWith(_, _)
JoinWith(parts, sep) ==
    IF Len(parts) = 1 THEN parts[1]
    ELSE parts[1] \o sep \o JoinWith(Tail(parts), sep)

\* C19: the string of the RefId parsed from a string is the string, the
\* string of the Target parsed from a string is the string, and the
\* name_components of the Target are the parts of its name between the
\* "::" (none of them holds one, and "::" between them gives the name).
StringRoundTrip ==
    (last.op \in {"RefId", "Target"} /\ last.out.exc = "none") =>
        /\ last.out.val.str = last.args[1]
        /\ last.op = "Target" =>
              LET c == last.out.val.components
              IN /\ Len(c) >= 1
                 /\ JoinWith(c, <<":", ":">>) = last.out.val.parsed.name
                 /\ \A i \in 1..Len(c) : Positions(c[i], <<":", ":">>) = {}

\* The target string of a file and a name has been parsed and formatted.
StringRoundTripWitness ==
    /\ last.op = "Target"
    /\ last.args = << <<"a", ".", "a", ":", ":", "a">> >>
    /\ last.out.exc = "none"
    /\ last.out.val.parsed = Target(<<"a", ".", "a">>, <<"a">>)
    /\ last.out.val.components = << <<"a">> >>

\* C20: with readers in parallel, one on the built store and one on the
\* copy restored from its dump, every outcome a reader gets, in any
\* interleaving of the statements, is an outcome of the same call alone on
\* the original (and the original alone has the outcomes the handle of the
\* reader has), and no step changes a table of either handle.
ReadersIndependent ==
    /\ [](\A h \in Handles :
            /\ running[h].phase = "done" =>
                  running[h].out \in Method(db, running[h].op, running[h].args)
            /\ (running[h].phase /= "idle" /\ Store(h) /= NoDb) =>
                  Method(Store(h), running[h].op, running[h].args)
                      = Method(db, running[h].op, running[h].args))
    /\ [][/\ \A t \in TableNames : db'[t] = db[t]
          /\ restored /= NoDb => \A t \in TableNames : restored'[t] = restored[t]]_vars

\* The reader of the copy has its get_tree of an enum value between two
\* statements while the reader of the original has the outcome of a call.
ReadersIndependentWitness ==
    /\ running["restored"].phase = "got"
    /\ running["restored"].args = <<"r">>
    /\ running["db"].phase = "done"
    /\ running["db"].op = "resolve_target"
    /\ running["db"].out.exc = "none"

\* The place of a position of __init__ in the order of its calls.
PhaseRank(p) ==
    CASE p = "new" -> 0
      [] p = "index" -> 1
      [] p = "inner" -> 2
      [] p = "vacuum" -> 3
      [] p = "built" -> 4
      [] OTHER -> 5

\* C21: __init__ runs _init_db, then _read_index over the whole index.xml,
\* then _load_all_inner over every compound of the elements, then _vacuum,
\* in this order; a call of a query method on the store happens only once
\* all of them have returned, and after an exception in any of them there is
\* no store and no call.
BuiltBeforeQueried ==
    /\ [](/\ (last /= NoCall /\ last.h = "db") => pc = "built"
          /\ pc = "new" => db = NoDb
          /\ pc = "failed" => (db = NoDb /\ restored = NoDb /\ last = NoCall)
          /\ pc \in {"vacuum", "built"} => (todo = {} /\ cur = NoRef /\ open = NoElem))
    /\ [][/\ pc' /= pc =>
                \/ pc' = "failed" /\ pc \in {"index", "inner"}
                \/ pc = "new" /\ pc' \in {"index", "inner"} /\ db' = NewDb
                \/ PhaseRank(pc') = PhaseRank(pc) + 1
          /\ (pc /= "inner" /\ pc' = "inner") =>
                (open' = NoElem /\ todo' = CompoundIds(db'))
          /\ (pc = "inner" /\ pc' = "inner") =>
                (todo' \subseteq todo /\ todo \ todo' \subseteq {cur'})
          /\ (pc = "inner" /\ pc' = "vacuum") => todo = {}
          /\ pc \in {"vacuum", "built"} => db' = db]_vars

\* A store built from an index.xml and a detail file has answered a call.
BuiltBeforeQueriedWitness ==
    /\ pc = "built"
    /\ last /= NoCall
    /\ last.h = "db"
    /\ manifest /= {}
    /\ details /= {}

\* The elements of kind file, and of any compound kind, whose name matches a
\* path.
FileRoots(d, path) ==
    {e.refid : e \in {x \in Files(d) : MatchPath(x.name, path)}}

CompoundRoots(d, path) ==
    {e.refid : e \in {x \in Rows(d.elements) :
                         x.kind \in Compounds /\ MatchPath(x.name, path)}}

\* The ends of the chains of a target that start at one of the roots.
EndsFrom(d, roots, target) ==
    LET c == Split(target.name, NS)
        n == IF target.name = <<STAR>> THEN 0 ELSE Len(c)
        IsChain(ch) ==
            /\ ch[0] \in roots
            /\ \A i \in 1..n :
                  /\ HasEdge(d, ch[i], ch[i - 1])
                  /\ \E e \in Rows(d.elements) :
                        e.refid = ch[i] /\ Stripped(e.name) = c[i]
    IN {ch[n] : ch \in {x \in [0..n -> Ids(d)] : IsChain(x)}}

\* C22 as stated: the walk of resolve_target starts at every element of a
\* compound kind whose name matches the path of the target, at every compound
\* when the target has no path.
RootsAreCompounds ==
    (last.op = "resolve_target" /\ ScopeOf(last) = NoRef) =>
        Shown(last.out) = EndsFrom(Store(last.h),
                                   CompoundRoots(Store(last.h), last.args[1].path),
                                   last.args[1])

\* C22: the walk of resolve_target starts at the elements of kind file whose
\* name matches the path of the target, at every file when the target has
\* no path; a compound of another kind is no root.
RootsAreFiles ==
    (last.op = "resolve_target" /\ ScopeOf(last) = NoRef) =>
        Shown(last.out) = EndsFrom(Store(last.h),
                                   FileRoots(Store(last.h), last.args[1].path),
                                   last.args[1])

\* resolve_target has found nothing for the name of a variable that is the
\* child of a group and of no file.
RootsAreFilesWitness ==
    /\ last.op = "resolve_target"
    /\ last.args = <<Target(NoPath, <<"x">>), NoRef>>
    /\ last.out = Exc("InvalidTarget")
    /\ HasEdge(Store(last.h), "v", "g")
    /\ \E e \in Rows(Store(last.h).elements) : e.refid = "g" /\ e.kind = "GROUP"

\* The last k elements of a sequence, none for k = 0.
LastK(seq, k) == SubSeq(seq, Len(seq) - k + 1, Len(seq))

\* The filter starts with "./", and the filter without it.
Marked(p) == Len(p) >= 2 /\ p[1] = DOT /\ p[2] = SEP
Unmarked(p) == SubSeq(p, 3, Len(p))

\* C23: match_path(p1, p2) is true for every p1 when p2 is empty; when p2
\* starts with "./" it is true exactly when the components of p1 are the
\* components of p2 without the "./"; otherwise it is true exactly when the
\* last k components of p1 and of p2 are equal, k the smaller of the two
\* numbers of components.
MatchPathRule ==
    last.op = "match_path" =>
        LET p1 == last.args[1]
            p2 == last.args[2]
            k == Min(Len(PathParts(p1)), Len(PathParts(p2)))
        IN last.out.val =
              IF p2 = NoPath THEN TRUE
              ELSE IF Marked(p2) THEN PathParts(p1) = PathParts(Unmarked(p2))
              ELSE LastK(PathParts(p1), k) = LastK(PathParts(p2), k)

\* The filter "./.hid" has matched the name "d/.hid".
MatchPathRuleWitness ==
    /\ last.op = "match_path"
    /\ last.args = << <<"d", SEP, ".hid">>, <<DOT, SEP, ".hid">> >>
    /\ last.out.val = TRUE

\* The one row of elements with an identifier.
RowOf(d, id) == CHOOSE e \in Rows(d.elements) : e.refid = id

\* The parents of an element that are elements of no synthetic kind.
PlainParents(d, id) ==
    {p \in Ids(d) : HasEdge(d, id, p) /\ RowOf(d, p).kind \notin SyntheticCompounds}

\* The chain of ancestors of an element, synthetic compounds ignored, from
\* the element up, while there is exactly one parent; <<>> when some
\* element of it has several parents or the chain does not end within n
\* steps.
RECURSIVE ChainUp(_, _, _)
ChainUp(d, id, n) ==
    IF PlainParents(d, id) = {} THEN <<id>>
    ELSE IF n = 0 \/ Cardinality(PlainParents(d, id)) > 1 THEN <<>>
    ELSE LET rest == ChainUp(d, CHOOSE p \in PlainParents(d, id) : TRUE, n - 1)
         IN IF rest = <<>> THEN <<>> ELSE <<id>> \o rest

\* The names of the elements of a chain but the last, from the top down,
\* with "::" between them.
NamesDown(d, chain) ==
    Join([i \in 1..(Len(chain) - 1) |-> RowOf(d, chain[Len(chain) - i]).name], NS)

\* C24: for an element e that is no file and whose chain of ancestors,
\* synthetic compounds ignored, is unique and ends at a file F,
\* refid_to_target(e) returns Target(name(F), the names from below F down to
\* e joined by "::"); a group, page or dir above e, also next to F, gives
\* neither the path nor a component.
TargetOfChain ==
    (last.op = "refid_to_target" /\ last.args[1] \in Ids(Store(last.h))) =>
        LET d == Store(last.h)
            chain == ChainUp(d, last.args[1], Cardinality(Ids(d)))
        IN (Len(chain) >= 2 /\ RowOf(d, Last(chain)).kind = "FILE") =>
              last.out = Ok(Target(RowOf(d, Last(chain)).name, NamesDown(d, chain)))

\* refid_to_target of a variable that is a child of a file and of a group
\* has returned the path of the file and the name of the variable.
TargetOfChainWitness ==
    /\ last.op = "refid_to_target"
    /\ last.args = <<"v">>
    /\ HasEdge(Store(last.h), "v", "g")
    /\ HasEdge(Store(last.h), "v", "f1")
    /\ RowOf(Store(last.h), "g").kind = "GROUP"
    /\ last.out = Ok(Target(<<"a.h">>, <<"x">>))

\* The edges index.xml declares: from each member that is no enum value to
\* the compound it is nested in.
DeclaredEdges ==
    {EdgeRow(m.elem.refid, m.parent) :
        m \in {x \in manifest : /\ x.elem.tag = "member"
                                /\ Upper(x.elem.kind) \notin Subordinate}}

\* C25: when _read_index has returned and no detail file has been read,
\* elements holds one row for every compound and member of index.xml, with
\* its kind and a name it is declared with, and hierarchy holds exactly the
\* edges from the members that are no enum values to the compounds they are
\* nested in, each once: no compound and no enum value is the child of an
\* edge.
ManifestPhase ==
    (pc = "inner" /\ details = {}) =>
        /\ Ids(db) = {m.elem.refid : m \in manifest}
        /\ UniqueRows(db)
        /\ \A e \in Rows(db.elements) :
              \E m \in manifest : /\ m.elem.refid = e.refid
                                  /\ m.elem.name = e.name
                                  /\ Upper(m.elem.kind) = e.kind
        /\ Rows(db.hierarchy) = DeclaredEdges
        /\ \A row \in Rows(db.hierarchy) : db.hierarchy[row] = 1
        /\ \A m \in manifest :
              (m.elem.tag = "compound" \/ Upper(m.elem.kind) \in Subordinate) =>
                  \A row \in Rows(db.hierarchy) : row.child /= m.elem.refid

\* _read_index has returned from an index.xml with a file, a variable and an
\* enum value in it.
ManifestPhaseWitness ==
    /\ pc = "inner"
    /\ details = {}
    /\ ManifestEntry(ValueR, "f1") \in manifest
    /\ ManifestEntry(VarV, "f1") \in manifest
    /\ Rows(db.hierarchy) = {EdgeRow("v", "f1")}

\* The node of a detail file is an inner-<kind> element, and one of a kind of
\* the taxonomy.
IsInner(node) == node.tag[1] = "inner"
IsSupportedInner(node) == IsInner(node) /\ TagSupported(TagAfterInner(node.tag))

\* C26: in _load_all_inner, after every inner-<kind> element of a supported
\* kind read in the detail file of a compound C without an exception, the
\* edge from the identifier it refers to to C is in hierarchy, and stays; an
\* inner-<kind> element of a kind outside the taxonomy and any element that
\* is neither inner-<kind> nor enumvalue change nothing and raise nothing;
\* no step of the phase changes elements or removes an edge, so the edges
\* of index.xml are there when it ends.
DetailPhase ==
    /\ [](pc \in {"inner", "vacuum", "built"} =>
            /\ \A entry \in details :
                  IsSupportedInner(entry.node) =>
                      HasEdge(db, entry.node.id, entry.compound)
            /\ Ids(db) = {m.elem.refid : m \in manifest}
            /\ DeclaredEdges \subseteq Rows(db.hierarchy))
    /\ [][pc = "inner" =>
            /\ \A entry \in details' \ details :
                  (~IsSupportedInner(entry.node) /\ entry.node.tag /= <<"enumvalue">>) =>
                      (pc' = "inner" /\ db' = db)
            /\ pc' = "inner" =>
                  /\ db'.elements = db.elements
                  /\ \A row \in Rows(db.hierarchy) : row \in Rows(db'.hierarchy)
                  /\ \A row \in Rows(db'.hierarchy) \ Rows(db.hierarchy) :
                        \E entry \in details' \ details :
                            /\ row.child = entry.node.id
                            /\ \/ IsSupportedInner(entry.node)
                                  /\ row.parent = entry.compound
                               \/ entry.node.tag = <<"enumvalue">>
                                  /\ row.parent = entry.node.parentId]_vars

\* A store is built from a detail file with an innerclass of a declared
\* struct and an inner element of a kind outside the taxonomy.
DetailPhaseWitness ==
    /\ pc = "built"
    /\ DetailEntry("f1", InnerClassS) \in details
    /\ DetailEntry("f1", InnerConcept) \in details
    /\ HasEdge(db, "s", "f1")

\* The rows in the levels of a table.
RECURSIVE RowsIn(_)
RowsIn(levels) ==
    IF levels = <<>> THEN 0 ELSE Cardinality(Head(levels)) + RowsIn(Tail(levels))

\* Some element is above itself in the hierarchy of the store.
HasLoop(d) == \E id \in Ids(d) : id \in Above(d, {id})

\* C27: on every hierarchy, one with a loop included, a call of
\* refid_to_target or resolve_target that has begun returns or raises; the
\* walk up of refid_to_target takes at most ParentLimit hops and rows, the
\* walk down of resolve_target at most one hop more than the name has
\* components, the last of them finding nothing; and each ends with an
\* outcome of the method.
WalksTerminate ==
    /\ [](running["db"].phase = "up" =>
             /\ Len(running["db"].part.levels) <= ParentLimit
             /\ RowsIn(running["db"].part.levels) + running["db"].part.budget
                    = ParentLimit)
    /\ [](running["db"].phase = "down" =>
             /\ running["db"].part.level
                    <= Len(NameComponents(running["db"].args[1])) + 1
             /\ running["db"].part.level > Len(NameComponents(running["db"].args[1]))
                    => running["db"].part.queue = {})
    /\ [](running["db"].phase = "done" =>
             running["db"].out \in Method(db, running["db"].op, running["db"].args))
    /\ (running["db"].phase \in {"up", "down"}) ~> (running["db"].phase = "done")

\* The walk up from a struct that is its own parent has taken all the rows
\* LIMIT lets in, and refid_to_target has raised ConsistencyError.
WalksTerminateWitness ==
    /\ HasLoop(db)
    /\ running["db"].phase = "done"
    /\ running["db"].op = "refid_to_target"
    /\ Len(running["db"].part.levels) = ParentLimit
    /\ running["db"].out = Exc("ConsistencyError")

\* The scopes given to a call: NoRef is no scope.
Scopes == ArgScopes \ {NoRef}

\* The candidates of resolve_target and of resolve_name in a store.
TargetCandidates(d, target) ==
    LET components == NameComponents(target)
    IN Follow(d, target.path, components,
              IF Len(components) = 1 /\ target.name = <<STAR>> THEN 0
              ELSE Len(components))

NameCandidates(d, kind, name) ==
    {e.refid : e \in {x \in Rows(d.elements) :
                         (kind = NoKind \/ x.kind = kind) /\ x.name = name}}

\* Every outcome is the identifier r; every outcome is the exception e.
Returns(outs, r) == \A o \in outs : o.exc = "none" /\ o.val = r
Raises(outs, e) == \A o \in outs : o.exc = e

\* What a call with a scope may do, given what the call without scope may
\* do and the candidates.
ScopeOnlySaves(d, without, with, candidates, scope) ==
    /\ \A out \in without :
          \/ out.exc = "AmbiguousTarget"
          \/ \A w \in with : w.exc = out.exc /\ (out.exc = "none" => w.val = out.val)
    /\ (/\ Cardinality(candidates) > 1
        /\ \A c \in candidates : InScope(d, c, scope) /= 1)
       => \A out \in with : out.exc = "AmbiguousTarget"

\* C28: in every store, for every target (or kind and name) and scope, the
\* call with the scope returns the identifier the call without scope
\* returns, raises InvalidTarget when the call without scope does, and raises
\* AmbiguousTarget when there are several candidates none of which is a
\* direct child of the scope. The two calls are compared on the store as it
\* is between two calls.
ScopeOnlyDisambiguates ==
    \A h \in Handles :
        Alive(h) /\ last = NoCall =>
            /\ \A path \in ArgPaths, name \in ArgNames, scope \in Scopes :
                  ScopeOnlySaves(Store(h),
                                 ResolveTarget(Store(h), Target(path, name), NoRef),
                                 ResolveTarget(Store(h), Target(path, name), scope),
                                 TargetCandidates(Store(h), Target(path, name)),
                                 scope)
            /\ \A kind \in {NoKind, "VARIABLE"}, name \in {<<"x">>, <<"S">>},
                  scope \in Scopes :
                  ScopeOnlySaves(Store(h),
                                 ResolveName(Store(h), kind, name, NoRef),
                                 ResolveName(Store(h), kind, name, scope),
                                 NameCandidates(Store(h), kind, name),
                                 scope)

\* resolve_target with a scope has raised AmbiguousTarget for candidates of
\* which one has a parent, though not the scope, in a store where another
\* target has a single candidate that is no child of that scope and where
\* some name has no candidate.
ScopeOnlyDisambiguatesWitness ==
    /\ last.op = "resolve_target"
    /\ last.args[2] /= NoRef
    /\ last.out.exc = "AmbiguousTarget"
    /\ LET d == Store(last.h)
           scope == last.args[2]
           candidates == TargetCandidates(d, last.args[1])
       IN /\ Cardinality(candidates) > 1
          /\ \A c \in candidates : InScope(d, c, scope) /= 1
          /\ \E c \in candidates : InScope(d, c, scope) = 0
          /\ \E path \in ArgPaths, name \in ArgNames :
                \E r \in Ids(d) :
                    /\ InScope(d, r, scope) /= 1
                    /\ Returns(ResolveTarget(d, Target(path, name), NoRef), r)
                    /\ Returns(ResolveTarget(d, Target(path, name), scope), r)
          /\ \E name \in {<<"x">>, <<"S">>} :
                /\ Raises(ResolveName(d, NoKind, name, NoRef), "InvalidTarget")
                /\ Raises(ResolveName(d, NoKind, name, scope), "InvalidTarget")

\* The node of a detail file for which _read_inner records an edge, and the
\* parent of that edge when the node is read in the detail file of compound.
RecordsEdge(node) ==
    \/ IsSupportedInner(node)
    \/ node.tag = <<"enumvalue">> /\ node.parentTag = "memberdef"

EdgeParent(node, compound) ==
    IF node.tag = <<"enumvalue">> THEN node.parentId ELSE compound

\* C29: during the build and in every store, built or restored, the child
\* of every edge of hierarchy is in elements; a step of the detail phase
\* that would record an edge whose child is not in elements raises
\* IntegrityError and ends the build; one whose child is in elements and
\* whose parent is not records the edge and the build goes on.
ChildrenDeclared ==
    /\ [](\A h \in Handles :
             AliveDuringBuild(h) =>
                 \A row \in Rows(Store(h).hierarchy) : row.child \in Ids(Store(h)))
    /\ [][pc = "inner" =>
             \A entry \in details' \ details :
                 RecordsEdge(entry.node) =>
                     IF entry.node.id \notin Ids(db)
                     THEN pc' = "failed" /\ err' = "IntegrityError"
                     ELSE /\ pc' = "inner"
                          /\ HasEdge(db', entry.node.id,
                                     EdgeParent(entry.node, entry.compound))]_vars

\* The build has recorded the edge of an enum value to an enum that
\* index.xml does not declare, and then has failed with IntegrityError on
\* the innerclass of a struct that index.xml does not declare.
ChildrenDeclaredWitness ==
    /\ pc = "failed"
    /\ err = "IntegrityError"
    /\ DetailEntry("f1", InnerClassZ) \in details
    /\ DetailEntry("f1", EnumValueR) \in details
    /\ \A m \in manifest : m.elem.refid /= "e"
    /\ \E m \in manifest : m.elem.refid = "r"

\* The identifiers of the runs that are in their try block, outermost first.
RECURSIVE Rendering(_)
Rendering(runs) ==
    IF runs = <<>> THEN <<>>
    ELSE IF Head(runs).at \in {"try", "content"}
    THEN <<Head(runs).ref>> \o Rendering(Tail(runs))
    ELSE Rendering(Tail(runs))

\* C30: the scope stack holds the identifiers of the runs of DoxyExtractor
\* that are in their try block and no other, outermost first: run pushes
\* its identifier before the block and pops it once on every way out; with
\* no run in progress the stack is empty as before the outermost run; and
\* the scope resolve_refstr reads is the identifier of the innermost run in
\* its try block, 0 when there is none.
ScopeStackBalanced ==
    /\ env.ref_context.stack = Rendering(env.runs)
    /\ env.runs = <<>> => env.ref_context.stack = <<>>
    /\ env.scope /= "none" =>
          env.scope = IF Rendering(env.runs) = <<>> THEN ZeroScope
                      ELSE Rendering(env.runs)[Len(Rendering(env.runs))]

\* A child a run includes has run after the finally of that run, has pushed
\* its own identifier and has raised out of its try block: the exception
\* has left the child and the stack is empty as the parent left it.
ScopeStackBalancedWitness ==
    /\ Len(env.runs) = 1
    /\ env.runs[1].at = "children"
    /\ env.exc = "Exception"
    /\ env.ref_context.stack = <<>>
====
